---- MODULE Spec2Model ----
(***************************************************************************)
(* The TIPC name table of net/tipc/name_table.c as a state machine.        *)
(*                                                                         *)
(* The table (seq_hlist) maps a hash bucket to a chain of name sequences;  *)
(* a name sequence holds the sorted array of live sub-sequences            *)
(* sseqs[0 .. first_free-1] and its subscription list; a sub-sequence      *)
(* holds a name_info with the two publication lists local_publ and         *)
(* all_publ, written head first.  Array slots at and above first_free are  *)
(* never indexed by the code and are left out; first_free is the length    *)
(* of the live part.                                                       *)
(*                                                                         *)
(* Every exported function is one operator from (table, arguments) to an   *)
(* outcome record (the table after the call, the value returned, the       *)
(* return statement taken as `tag', the overlap reports made), and one     *)
(* action applying it.  What a call returns is not kept in the state: a    *)
(* property of a call is stated on its operator, for every reachable table *)
(* and every argument.  `Spec' runs the calls one at a time (each holds    *)
(* the sequence lock for all its work) with every GFP_ATOMIC allocation    *)
(* succeeding: its actions pass NoFail as the set of failing allocation    *)
(* sites.                                                                  *)
(***************************************************************************)
EXTENDS Integers, Sequences, FiniteSets, TLC

VARIABLES
    seq_hlist,  \* tn->nametbl->seq_hlist: bucket -> chain of name_seq, head first
    subs,       \* the subscription objects: attributes and list membership
    oops,       \* TRUE once a call has dereferenced an unlinked list node
    local_publ_count,   \* tn->nametbl->local_publ_count
    nametbl_lock,       \* tn->nametbl_lock: the thread holding it, 0 when free
    pc,                 \* thread -> the call it is in and the statement it is at
    stopped,            \* TRUE once tipc_nametbl_stop has released the table
    cb,                 \* cb->args of the netlink dump: the cursor and done
    seq_lock,           \* type -> the thread holding seq->lock, 0 when free
    ncalls,             \* the calls that have changed the table so far
    log,                \* the overlap reports, or the reference counting calls, so far
    gen,                \* <<kind, type>> -> the objects of the kind allocated so far
    rcu,                \* the unlinked objects: who may still read them, freed or not
    sso                 \* rvu_sso.c: the identifier bitmap, each function's identifier
                        \* and the accounting index programmed into its groups

vars == <<seq_hlist, subs, oops, local_publ_count, nametbl_lock, pc, stopped, cb,
          seq_lock, ncalls, log, gen, rcu, sso>>

\* What the calls on a live table leave alone.
other == <<stopped, cb, seq_lock, ncalls, log, gen, rcu, sso>>

\* What the calls made one at a time leave alone: the counter of the local
\* publish calls and the threads.
rest == <<local_publ_count, nametbl_lock, pc, other>>

----------------------------------------------------------------------------
(* Bounds and input sets *)

\* The model stops accepting publications at MaxPubl in the whole table.
MaxPubl == 2

TIPC_NAMETBL_SIZE == 1024

\* include/uapi/linux/tipc.h: the largest legal scope value.
TIPC_CLUSTER_SCOPE == 2
TIPC_NODE_SCOPE == 3

\* A TIPC address <Z.C.N> is Z * 2^24 + C * 2^12 + N.
tipc_addr(z, c, n) == z * 16777216 + c * 4096 + n

OwnAddr == tipc_addr(1, 1, 1)
RemoteAddr == tipc_addr(1, 1, 2)
OwnCluster == tipc_addr(1, 1, 0)

Types == {1}
LockTypes == {1, 1 + TIPC_NAMETBL_SIZE}
Instances == 0 .. 2
Nodes == {0, OwnAddr, RemoteAddr}
Ports == {1, 2}
Keys == {1}
Scopes == {TIPC_NODE_SCOPE}
LookupScopes == {TIPC_CLUSTER_SCOPE, TIPC_NODE_SCOPE}
DestNodes == {0, OwnAddr, RemoteAddr, OwnCluster}
SubIds == {1}

\* The subscription objects there are; those outside SubIds are used where the
\* order of a subscription list matters.
Subscribers == {1, 2}
SubLowers == {1}
SubUppers == {2}

\* The <<node, port>> pairs that publish.
Publishers == {<<OwnAddr, 1>>, <<OwnAddr, 2>>, <<RemoteAddr, 1>>, <<0, 1>>}

\* Arguments tipc_nametbl_insert_publ refuses: <<lower, upper, scope>>.
IllegalArgs == {<<1, 0, TIPC_NODE_SCOPE>>, <<0, 0, TIPC_NODE_SCOPE + 1>>}

NoFail == {}

\* include/uapi/linux/tipc.h has 65535; the model scales the quota of local
\* publications down to the publications it follows.
TIPC_MAX_PUBLICATIONS == MaxPubl

\* local_publ_count is a u32.  The model wraps it at 2^16, which its integers
\* can hold and which is still far above TIPC_MAX_PUBLICATIONS.
CountMod == 65536

NULL == [nil |-> TRUE]
NOT_FOUND == -1

----------------------------------------------------------------------------
(* Collaborators outside name_table.c *)

\* addr.c: the publishing node is this node.
in_own_node(node) == node = OwnAddr

\* addr.c: domain 0, the own node, or the cluster or zone holding it.
tipc_in_scope(domain, addr) ==
    \/ domain = 0
    \/ domain = addr
    \/ domain = addr - (addr % 4096)
    \/ domain = addr - (addr % 16777216)

\* subscr.c: the closed ranges [ns.lower, ns.upper] and [lower, upper] intersect.
tipc_sub_check_overlap(ns, lower, upper) ==
    LET lo == IF lower < ns.lower THEN ns.lower ELSE lower
        up == IF upper > ns.upper THEN ns.upper ELSE upper
    IN  lo <= up

\* subscr.c: one overlap event handed to subscription s.
tipc_sub_report_overlap(s, lower, upper, event, port, node, scope, must) ==
    [sub |-> s, lower |-> lower, upper |-> upper, event |-> event,
     port |-> port, node |-> node, scope |-> scope, must |-> must]

----------------------------------------------------------------------------
(* Lists (head first) *)

list_add(new, head) == <<new>> \o head

list_del(entry, head) == SelectSeq(head, LAMBDA e : e # entry)

list_move_tail(entry, head) == Append(list_del(entry, head), entry)

list_member(entry, head) == \E i \in 1 .. Len(head) : head[i] = entry

----------------------------------------------------------------------------
(* name_table.c *)

hash(x) == x % TIPC_NAMETBL_SIZE

Buckets == {hash(t) : t \in Types}

publ_create(type, lower, upper, scope, node, port, key) ==
    [type |-> type, lower |-> lower, upper |-> upper, scope |-> scope,
     node |-> node, port |-> port, key |-> key]

\* NULL when one of the two allocations fails; else an empty sequence of capacity 1.
tipc_nameseq_create(type, fail) ==
    IF "nseq" \in fail \/ "sseq" \in fail
    THEN NULL
    ELSE [type |-> type, sseqs |-> <<>>, alloc |-> 1, subscriptions |-> <<>>]

first_free(nseq) == Len(nseq.sseqs)

\* sseqs[i] of the C array (indices from 0).
sseq_at(nseq, i) == nseq.sseqs[i + 1]

RECURSIVE find_loop(_, _, _, _)
find_loop(nseq, instance, low, high) ==
    IF low > high
    THEN NOT_FOUND
    ELSE LET mid == (low + high) \div 2
         IN  IF instance < sseq_at(nseq, mid).lower
             THEN find_loop(nseq, instance, low, mid - 1)
             ELSE IF instance > sseq_at(nseq, mid).upper
                  THEN find_loop(nseq, instance, mid + 1, high)
                  ELSE mid

\* nameseq_find_subseq that takes the first live sub-sequence for a match.
nameseq_find_subseq_first(nseq, instance) ==
    IF first_free(nseq) > 0 THEN 0 ELSE NOT_FOUND

\* nameseq_find_subseq that tests the middle sub-sequence only.
nameseq_find_subseq_mid(nseq, instance) ==
    IF first_free(nseq) > 0
       /\ sseq_at(nseq, (first_free(nseq) - 1) \div 2).lower <= instance
       /\ instance <= sseq_at(nseq, (first_free(nseq) - 1) \div 2).upper
    THEN (first_free(nseq) - 1) \div 2
    ELSE NOT_FOUND

\* Index of the sub-sequence holding instance, NOT_FOUND for the C NULL.
nameseq_find_subseq(nseq, instance) ==
    find_loop(nseq, instance, 0, first_free(nseq) - 1)

RECURSIVE locate_loop(_, _, _, _)
locate_loop(nseq, instance, low, high) ==
    IF low > high
    THEN low
    ELSE LET mid == (low + high) \div 2
         IN  IF instance < sseq_at(nseq, mid).lower
             THEN locate_loop(nseq, instance, low, mid - 1)
             ELSE IF instance > sseq_at(nseq, mid).upper
                  THEN locate_loop(nseq, instance, mid + 1, high)
                  ELSE mid

nameseq_locate_subseq(nseq, instance) ==
    locate_loop(nseq, instance, 0, first_free(nseq) - 1)

\* sseqs_insert without the memmove: the new slot goes behind the live ones.
sseqs_insert_append(sseqs, inspos, sseq) == Append(sseqs, sseq)

\* memmove(sseq + 1, sseq, ...) and the fill of the opened slot at inspos.
sseqs_insert(sseqs, inspos, sseq) ==
    SubSeq(sseqs, 1, inspos) \o <<sseq>> \o SubSeq(sseqs, inspos + 1, Len(sseqs))

\* sseqs_remove with the memmove one slot short: the last live slot is lost and
\* the slot at idx stays.
sseqs_remove_last(sseqs, idx) == SubSeq(sseqs, 1, Len(sseqs) - 1)

\* first_free-- and memmove(sseq, sseq + 1, ...) for the slot at idx.
sseqs_remove(sseqs, idx) ==
    SubSeq(sseqs, 1, idx) \o SubSeq(sseqs, idx + 2, Len(sseqs))

\* report_all that stops after the first subscription.
report_all_first_only(nseq, publ, event, must) ==
    [i \in 1 .. (IF nseq.subscriptions = <<>> THEN 0 ELSE 1) |->
        tipc_sub_report_overlap(nseq.subscriptions[i], publ.lower, publ.upper,
                                event, publ.port, publ.node, publ.scope, must)]

\* report_all with the flag set in every report.
report_all_must(nseq, publ, event, must) ==
    [i \in 1 .. Len(nseq.subscriptions) |->
        tipc_sub_report_overlap(nseq.subscriptions[i], publ.lower, publ.upper,
                                event, publ.port, publ.node, publ.scope, TRUE)]

\* The list_for_each_entry over nseq->subscriptions with one report each.
report_all(nseq, publ, event, must) ==
    [i \in 1 .. Len(nseq.subscriptions) |->
        tipc_sub_report_overlap(nseq.subscriptions[i], publ.lower, publ.upper,
                                event, publ.port, publ.node, publ.scope, must)]

\* insert_tail with list_add_tail in place of list_add.
insert_tail_at_tail(nseq, idx, created, type, lower, upper, scope, node, port, key, fail) ==
    LET publ == publ_create(type, lower, upper, scope, node, port, key)
        info == sseq_at(nseq, idx).info
        info1 == [info EXCEPT !.all_publ = Append(@, publ)]
        info2 == IF in_own_node(node)
                 THEN [info1 EXCEPT !.local_publ = Append(@, publ)]
                 ELSE info1
    IN  [nseq |-> [nseq EXCEPT !.sseqs[idx + 1].info = info2],
         publ |-> publ,
         tag |-> IF created THEN "created_subseq" ELSE "existing_subseq",
         events |-> report_all(nseq, publ, "PUBLISHED", created)]

\* "Insert a publication": lines 296-313, for the sub-sequence at idx.
insert_tail(nseq, idx, created, type, lower, upper, scope, node, port, key, fail) ==
    IF "publ" \in fail
    THEN [nseq |-> nseq, publ |-> NULL, tag |-> "nomem_publ", events |-> <<>>]
    ELSE LET publ == publ_create(type, lower, upper, scope, node, port, key)
             info == sseq_at(nseq, idx).info
             info1 == [info EXCEPT !.all_publ = list_add(publ, @)]
             info2 == IF in_own_node(node)
                      THEN [info1 EXCEPT !.local_publ = list_add(publ, @)]
                      ELSE info1
         IN  [nseq |-> [nseq EXCEPT !.sseqs[idx + 1].info = info2],
              publ |-> publ,
              tag |-> IF created THEN "created_subseq" ELSE "existing_subseq",
              events |-> report_all(nseq, publ, "PUBLISHED", created)]

\* upper_overlap with > in place of >=.
upper_overlap_strict(nseq, inspos, upper) ==
    /\ inspos < first_free(nseq)
    /\ upper > sseq_at(nseq, inspos).lower

\* "Fail if upper end overlaps into an existing entry": lines 253-254.
upper_overlap(nseq, inspos, upper) ==
    /\ inspos < first_free(nseq)
    /\ upper >= sseq_at(nseq, inspos).lower

\* identical_publ without the wildcard: !publ->node dropped.
identical_publ_same_node(info, node, port, key) ==
    \E i \in 1 .. Len(info.all_publ) :
        /\ info.all_publ[i].port = port
        /\ info.all_publ[i].key = key
        /\ info.all_publ[i].node = node

\* "Check if an identical publication already exists": lines 240-244.
identical_publ(info, node, port, key) ==
    \E i \in 1 .. Len(info.all_publ) :
        LET publ == info.all_publ[i]
        IN  /\ publ.port = port
            /\ publ.key = key
            /\ (publ.node = 0 \/ publ.node = node)

tipc_nameseq_insert_publ(nseq, type, lower, upper, scope, node, port, key, fail) ==
    LET idx == nameseq_find_subseq(nseq, lower)
        Rej(ns, tag) == [nseq |-> ns, publ |-> NULL, tag |-> tag, events |-> <<>>]
    IN  IF idx # NOT_FOUND
        THEN LET sseq == sseq_at(nseq, idx)
             IN  IF sseq.lower # lower \/ sseq.upper # upper
                 THEN Rej(nseq, "lower_overlap")
                 ELSE IF identical_publ(sseq.info, node, port, key)
                      THEN Rej(nseq, "duplicate")
                      ELSE insert_tail(nseq, idx, FALSE, type, lower, upper,
                                       scope, node, port, key, fail)
        ELSE LET inspos == nameseq_locate_subseq(nseq, lower)
             IN  IF upper_overlap(nseq, inspos, upper)
                 THEN Rej(nseq, "upper_overlap")
                 ELSE IF first_free(nseq) = nseq.alloc /\ "sseqs" \in fail
                      THEN Rej(nseq, "nomem_sseqs")
                      ELSE LET grown == IF first_free(nseq) = nseq.alloc
                                        THEN [nseq EXCEPT !.alloc = @ * 2]
                                        ELSE nseq
                           IN  IF "info" \in fail
                               THEN Rej(grown, "nomem_info")
                               ELSE LET info == [local_publ |-> <<>>, all_publ |-> <<>>]
                                        sseq == [lower |-> lower, upper |-> upper,
                                                 info |-> info]
                                        ins == [grown EXCEPT
                                                  !.sseqs = sseqs_insert(@, inspos, sseq)]
                                    IN  insert_tail(ins, inspos, TRUE, type, lower,
                                                    upper, scope, node, port, key, fail)

\* Position (from 1) of the sequence of this type in its chain, 0 for NULL.
nametbl_find_seq(hlist, type) ==
    LET chain == hlist[hash(type)]
        hits == {i \in 1 .. Len(chain) : chain[i].type = type}
    IN  IF hits = {} THEN 0 ELSE CHOOSE i \in hits : \A j \in hits : i <= j

\* illegal_publ without the test of the range.
illegal_publ_scope_only(lower, upper, scope) == scope > TIPC_NODE_SCOPE

\* Line 445: the publication is refused as illegal.
illegal_publ(lower, upper, scope) == scope > TIPC_NODE_SCOPE \/ lower > upper

\* Lines 445-460: tipc_nametbl_insert_publ from the point where nametbl_find_seq
\* has returned the sequence at pos (0: none).
insert_publ_at(hlist, pos, type, lower, upper, scope, node, port, key, fail) ==
    LET index == hash(type)
        Rej(tag) == [hlist |-> hlist, publ |-> NULL, tag |-> tag, events |-> <<>>]
    IN  IF illegal_publ(lower, upper, scope)
        THEN Rej("illegal")
        ELSE LET new == IF pos = 0 THEN tipc_nameseq_create(type, fail) ELSE NULL
             IN  IF pos = 0 /\ new = NULL
                 THEN Rej("nomem_nseq")
                 ELSE LET linked == IF pos = 0
                                    THEN [hlist EXCEPT ![index] = list_add(new, @)]
                                    ELSE hlist
                          at == IF pos = 0 THEN 1 ELSE pos
                          r == tipc_nameseq_insert_publ(linked[index][at], type, lower,
                                                        upper, scope, node, port, key,
                                                        fail)
                      IN  [hlist |-> [linked EXCEPT ![index][at] = r.nseq],
                           publ |-> r.publ, tag |-> r.tag, events |-> r.events]

tipc_nametbl_insert_publ(hlist, type, lower, upper, scope, node, port, key, fail) ==
    insert_publ_at(hlist, nametbl_find_seq(hlist, type), type, lower, upper, scope,
                   node, port, key, fail)

\* remove_match without the test of the port.
remove_match_any_port(info, node, port, key) ==
    LET hits == {i \in 1 .. Len(info.all_publ) :
                    /\ info.all_publ[i].key = key
                    /\ (info.all_publ[i].node = 0 \/ info.all_publ[i].node = node)}
    IN  IF hits = {} THEN 0 ELSE CHOOSE i \in hits : \A j \in hits : i <= j

\* The first entry of all_publ that the withdraw request matches, 0 for none.
remove_match(info, node, port, key) ==
    LET hits == {i \in 1 .. Len(info.all_publ) :
                    /\ info.all_publ[i].key = key
                    /\ info.all_publ[i].port = port
                    /\ (info.all_publ[i].node = 0 \/ info.all_publ[i].node = node)}
    IN  IF hits = {} THEN 0 ELSE CHOOSE i \in hits : \A j \in hits : i <= j

\* remove_local that leaves the local list alone.
remove_local_never(info, publ, node) == info

\* Lines 354-355: the publication taken off the local list.
remove_local(info, publ, node) ==
    IF in_own_node(node)
    THEN [info EXCEPT !.local_publ = list_del(publ, @)]
    ELSE info

\* ub: list_del(&publ->local_publ) ran on a publication that is on no local list;
\* nseq is then the result of a build whose list_del skips the unlinked node, and
\* partial the sequence as the call had it when it reached that list_del.
tipc_nameseq_remove_publ(nseq, inst, node, port, key) ==
    LET idx == nameseq_find_subseq(nseq, inst)
        Rej(tag) == [nseq |-> nseq, publ |-> NULL, tag |-> tag, events |-> <<>>,
                     ub |-> FALSE, partial |-> nseq]
    IN  IF idx = NOT_FOUND
        THEN Rej("no_subseq")
        ELSE LET info == sseq_at(nseq, idx).info
                 m == remove_match(info, node, port, key)
             IN  IF m = 0
                 THEN Rej("no_publ")
                 ELSE LET publ == info.all_publ[m]
                          info1 == [info EXCEPT !.all_publ = list_del(publ, @)]
                          info2 == remove_local(info1, publ, node)
                          removed_subseq == info2.all_publ = <<>>
                          nseq1 == IF removed_subseq
                                   THEN [nseq EXCEPT !.sseqs = sseqs_remove(@, idx)]
                                   ELSE [nseq EXCEPT !.sseqs[idx + 1].info = info2]
                      IN  [nseq |-> nseq1,
                           publ |-> publ,
                           tag |-> IF removed_subseq THEN "removed_subseq"
                                                     ELSE "kept_subseq",
                           events |-> report_all(nseq, publ, "WITHDRAWN", removed_subseq),
                           ub |-> in_own_node(node)
                                  /\ ~list_member(publ, info.local_publ),
                           partial |-> [nseq EXCEPT !.sseqs[idx + 1].info = info1]]

\* hlist_del_init_rcu of the sequence at pos of bucket index.
hlist_del(hlist, index, pos) ==
    [hlist EXCEPT ![index] = SubSeq(@, 1, pos - 1) \o SubSeq(@, pos + 1, Len(@))]

tipc_nametbl_remove_publ(hlist, type, lower, node, port, key) ==
    LET pos == nametbl_find_seq(hlist, type)
        index == hash(type)
    IN  IF pos = 0
        THEN [hlist |-> hlist, publ |-> NULL, tag |-> "no_seq", events |-> <<>>,
              ub |-> FALSE, partial |-> hlist]
        ELSE LET r == tipc_nameseq_remove_publ(hlist[index][pos], lower, node, port, key)
                 upd == [hlist EXCEPT ![index][pos] = r.nseq]
             IN  [hlist |-> IF first_free(r.nseq) = 0 /\ r.nseq.subscriptions = <<>>
                            THEN hlist_del(upd, index, pos)
                            ELSE upd,
                  publ |-> r.publ, tag |-> r.tag, events |-> r.events, ub |-> r.ub,
                  partial |-> [hlist EXCEPT ![index][pos] = r.partial]]

\* select_first that takes the last entry of the list.
select_last(info, field) ==
    LET publ == info[field][Len(info[field])]
    IN  [info |-> [info EXCEPT ![field] = list_move_tail(publ, @)], publ |-> publ]

\* list_first_entry and list_move_tail on the list named by field.
select_first(info, field) ==
    LET publ == Head(info[field])
    IN  [info |-> [info EXCEPT ![field] = list_move_tail(publ, @)], publ |-> publ]

\* translate_list without the Closest-First preference.
translate_list_all(info, destnode) ==
    IF destnode # 0 /\ destnode = OwnAddr THEN "local_publ" ELSE "all_publ"

\* translate_list with the all list for a request that names the own node.
translate_list_own_all(info, destnode) ==
    IF destnode = 0 /\ info.local_publ # <<>> THEN "local_publ" ELSE "all_publ"

\* The list translate selects from: lines 523-551.
translate_list(info, destnode) ==
    IF destnode = 0
    THEN IF info.local_publ # <<>> THEN "local_publ" ELSE "all_publ"
    ELSE IF destnode = OwnAddr THEN "local_publ" ELSE "all_publ"

\* translate_deferred that defers nothing.
translate_deferred_never(destnode) == FALSE

\* Lines 510-511: the translation is left to another node, cluster or zone.
translate_deferred(destnode) == ~tipc_in_scope(destnode, OwnAddr)

\* ub: list_first_entry ran on an empty list; port and node are then whatever the
\* memory behind the list head holds, and the lists are left as they are.
\* locked: the call took seq->lock (line 517) on its way to the return.
tipc_nametbl_translate(hlist, type, instance, destnode) ==
    LET pos == nametbl_find_seq(hlist, type)
        index == hash(type)
        Out(hl, port, node, tag, ub) ==
            [hlist |-> hl, port |-> port, destnode |-> node, tag |-> tag, ub |-> ub,
             locked |-> tag \notin {"deferred", "not_found"}]
    IN  IF translate_deferred(destnode)
        THEN Out(hlist, 0, destnode, "deferred", FALSE)
        ELSE IF pos = 0
        THEN Out(hlist, 0, 0, "not_found", FALSE)
        ELSE LET seq == hlist[index][pos]
                 idx == nameseq_find_subseq(seq, instance)
             IN  IF idx = NOT_FOUND
                 THEN Out(hlist, 0, 0, "no_match", FALSE)
                 ELSE LET info == sseq_at(seq, idx).info
                          field == translate_list(info, destnode)
                      IN  IF destnode # 0 /\ destnode = OwnAddr /\ info.local_publ = <<>>
                          THEN Out(hlist, 0, 0, "no_match", FALSE)
                          ELSE IF info[field] = <<>>
                          THEN Out(hlist, 0, 0, "empty_list", TRUE)
                          ELSE LET sel == select_first(info, field)
                               IN  Out([hlist EXCEPT
                                          ![index][pos].sseqs[idx + 1].info = sel.info],
                                       sel.publ.port, sel.publ.node, field, FALSE)

tipc_dest_find(l, node, port) == \E i \in 1 .. Len(l) : l[i] = <<node, port>>

\* tipc_dest_push without the tipc_dest_find test.
tipc_dest_push_always(l, node, port) == list_add(<<node, port>>, l)

\* The list after the push; unchanged when the destination is already on it.
tipc_dest_push(l, node, port) ==
    IF tipc_dest_find(l, node, port) THEN l ELSE list_add(<<node, port>>, l)

\* lookup_select without the list_move_tail.
lookup_select_no_move(acc, publ) == [acc EXCEPT !.publ = publ]

\* Lines 591-592: the destination taken by a lookup that wants one.
lookup_select(acc, publ) ==
    [acc EXCEPT !.info.all_publ = list_move_tail(publ, @), !.publ = publ]

\* The list_for_each_entry of tipc_nametbl_lookup from entry i of all_publ (which
\* is the list as it was on entry: the loop ends at the first move).
RECURSIVE lookup_loop(_, _, _, _, _, _)
lookup_loop(info, i, scope, exclude, all, acc) ==
    IF i > Len(info.all_publ)
    THEN acc
    ELSE LET publ == info.all_publ[i]
         IN  IF publ.scope # scope
             THEN lookup_loop(info, i + 1, scope, exclude, all, acc)
             ELSE IF publ.port = exclude /\ publ.node = OwnAddr
             THEN lookup_loop(info, i + 1, scope, exclude, all, acc)
             ELSE LET acc1 == [acc EXCEPT
                                 !.dsts = tipc_dest_push(@, publ.node, publ.port),
                                 !.dstcnt = @ + 1]
                  IN  IF all
                      THEN lookup_loop(info, i + 1, scope, exclude, all, acc1)
                      ELSE lookup_select(acc1, publ)

tipc_nametbl_lookup(hlist, type, instance, scope, dsts, exclude, all) ==
    LET pos == nametbl_find_seq(hlist, type)
        index == hash(type)
        Out(hl, l, cnt, publ, tag) ==
            [hlist |-> hl, dsts |-> l, dstcnt |-> cnt, found |-> l # <<>>,
             publ |-> publ, tag |-> tag]
    IN  IF pos = 0
        THEN Out(hlist, dsts, 0, NULL, "not_found")
        ELSE LET seq == hlist[index][pos]
                 idx == nameseq_find_subseq(seq, instance)
             IN  IF idx = NOT_FOUND
                 THEN Out(hlist, dsts, 0, NULL, "no_subseq")
                 ELSE LET info == sseq_at(seq, idx).info
                          acc == lookup_loop(info, 1, scope, exclude, all,
                                             [info |-> info, dsts |-> dsts,
                                              dstcnt |-> 0, publ |-> NULL])
                      IN  Out([hlist EXCEPT
                                 ![index][pos].sseqs[idx + 1].info = acc.info],
                              acc.dsts, acc.dstcnt, acc.publ,
                              IF acc.dstcnt = 0 THEN "none"
                              ELSE IF all THEN "all" ELSE "first")

\* Line 623: the scope test of a multicast lookup.
mc_scope_match(publ_scope, scope, exact) ==
    publ_scope = scope \/ (~exact /\ publ_scope < scope)

\* Lines 622-625: the walk of one local_publ list from entry i.
RECURSIVE mc_collect(_, _, _, _, _)
mc_collect(local_publ, i, scope, exact, dports) ==
    IF i > Len(local_publ)
    THEN dports
    ELSE mc_collect(local_publ, i + 1, scope, exact,
                    IF mc_scope_match(local_publ[i].scope, scope, exact)
                    THEN tipc_dest_push(dports, 0, local_publ[i].port)
                    ELSE dports)

\* Lines 618-626: the scan of the sub-sequences from index idx.
RECURSIVE mc_scan(_, _, _, _, _, _)
mc_scan(seq, idx, upper, scope, exact, dports) ==
    IF idx >= first_free(seq)
    THEN dports
    ELSE IF sseq_at(seq, idx).lower > upper
    THEN dports
    ELSE mc_scan(seq, idx + 1, upper, scope, exact,
                 mc_collect(sseq_at(seq, idx).info.local_publ, 1, scope, exact,
                            dports))

\* mc_start that begins behind the sub-sequence holding lower.
mc_start_behind(seq, lower) ==
    IF nameseq_find_subseq(seq, lower) # NOT_FOUND
    THEN nameseq_locate_subseq(seq, lower) + 1
    ELSE nameseq_locate_subseq(seq, lower)

\* Line 616: the sub-sequence the scan starts at.
mc_start(seq, lower) == nameseq_locate_subseq(seq, lower)

\* The destination ports after the call; the table is only read.
tipc_nametbl_mc_lookup(hlist, type, lower, upper, scope, exact, dports) ==
    LET pos == nametbl_find_seq(hlist, type)
    IN  IF pos = 0
        THEN dports
        ELSE mc_scan(hlist[hash(type)][pos], mc_start(hlist[hash(type)][pos], lower),
                     upper, scope, exact, dports)

\* subscribe_reports without must_report = 0 after the first report.
subscribe_reports_all_must(s, ns, sseq) ==
    IF tipc_sub_check_overlap(ns, sseq.lower, sseq.upper)
    THEN [k \in 1 .. Len(sseq.info.all_publ) |->
            LET crs == sseq.info.all_publ[k]
            IN  tipc_sub_report_overlap(s, sseq.lower, sseq.upper, "PUBLISHED",
                                        crs.port, crs.node, crs.scope, TRUE)]
    ELSE <<>>

\* The reports of the while loop of tipc_nameseq_subscribe for one sub-sequence.
subscribe_reports(s, ns, sseq) ==
    IF tipc_sub_check_overlap(ns, sseq.lower, sseq.upper)
    THEN [k \in 1 .. Len(sseq.info.all_publ) |->
            LET crs == sseq.info.all_publ[k]
            IN  tipc_sub_report_overlap(s, sseq.lower, sseq.upper, "PUBLISHED",
                                        crs.port, crs.node, crs.scope, k = 1)]
    ELSE <<>>

RECURSIVE subscribe_loop(_, _, _, _)
subscribe_loop(s, ns, sseqs, i) ==
    IF i > Len(sseqs)
    THEN <<>>
    ELSE subscribe_reports(s, ns, sseqs[i]) \o subscribe_loop(s, ns, sseqs, i + 1)

\* tipc_nameseq_subscribe whose while loop ends after the first sub-sequence.
tipc_nameseq_subscribe_one(nseq, s, sub) ==
    [nseq |-> [nseq EXCEPT !.subscriptions = list_add(s, @)],
     events |-> IF sub.no_status \/ nseq.sseqs = <<>>
                THEN <<>>
                ELSE subscribe_reports(s, sub, nseq.sseqs[1])]

\* s: the subscription object, sub: its type, lower, upper and no_status filter bit.
tipc_nameseq_subscribe(nseq, s, sub) ==
    [nseq |-> [nseq EXCEPT !.subscriptions = list_add(s, @)],
     events |-> IF sub.no_status
                THEN <<>>
                ELSE subscribe_loop(s, sub, nseq.sseqs, 1)]

\* Lines 776-788: tipc_nametbl_subscribe from the point where nametbl_find_seq
\* has returned the sequence at pos (0: none).
subscribe_at(hlist, pos, s, sub, fail) ==
    LET index == hash(sub.type)
        new == IF pos = 0 THEN tipc_nameseq_create(sub.type, fail) ELSE NULL
    IN  IF pos = 0 /\ new = NULL
        THEN [hlist |-> hlist, events |-> <<>>, tag |-> "nomem_nseq"]
        ELSE LET linked == IF pos = 0
                           THEN [hlist EXCEPT ![index] = list_add(new, @)]
                           ELSE hlist
                 at == IF pos = 0 THEN 1 ELSE pos
                 r == tipc_nameseq_subscribe(linked[index][at], s, sub)
             IN  [hlist |-> [linked EXCEPT ![index][at] = r.nseq],
                  events |-> r.events,
                  tag |-> "subscribed"]

tipc_nametbl_subscribe(hlist, s, sub, fail) ==
    subscribe_at(hlist, nametbl_find_seq(hlist, sub.type), s, sub, fail)

\* list_del_init(&sub->nameseq_list) takes s off whichever list holds it; put:
\* tipc_sub_put was called (line 807).
tipc_nametbl_unsubscribe(hlist, s, sub) ==
    LET pos == nametbl_find_seq(hlist, sub.type)
        index == hash(sub.type)
    IN  IF pos = 0
        THEN [hlist |-> hlist, tag |-> "no_seq", put |-> FALSE]
        ELSE LET unl == [b \in DOMAIN hlist |->
                            [i \in 1 .. Len(hlist[b]) |->
                                [hlist[b][i] EXCEPT !.subscriptions = list_del(s, @)]]]
                 seq == unl[index][pos]
             IN  IF first_free(seq) = 0 /\ seq.subscriptions = <<>>
                 THEN [hlist |-> hlist_del(unl, index, pos), tag |-> "seq_deleted",
                       put |-> TRUE]
                 ELSE [hlist |-> unl, tag |-> "seq_kept", put |-> TRUE]

\* Lines 854-858: the list_for_each_entry_safe over the all_publ list of the
\* first sub-sequence as it was on entry, from entry i; freed are the
\* publications handed to kfree_rcu, in order.
RECURSIVE purge_loop(_, _, _)
purge_loop(list, i, acc) ==
    IF i > Len(list)
    THEN acc
    ELSE LET publ == list[i]
             r == tipc_nameseq_remove_publ(acc.nseq, publ.lower, publ.node,
                                           publ.port, publ.key)
         IN  purge_loop(list, i + 1,
                        [nseq |-> r.nseq,
                         freed |-> Append(acc.freed, publ),
                         events |-> acc.events \o r.events,
                         ub |-> acc.ub \/ r.ub])

\* nseq: the sequence as it is when it is unlinked and handed to kfree_rcu, its
\* sseqs array freed with whatever sub-sequences it still holds and its
\* subscription list as it was.  ub: the sequence has no sub-sequence and
\* sseqs[0].info is NULL or the pointer to a name_info freed before.
tipc_purge_publications(nseq) ==
    IF first_free(nseq) = 0
    THEN [nseq |-> nseq, freed |-> <<>>, events |-> <<>>, ub |-> TRUE]
    ELSE purge_loop(sseq_at(nseq, 0).info.all_publ, 1,
                    [nseq |-> nseq, freed |-> <<>>, events |-> <<>>, ub |-> FALSE])

\* purged: what tipc_purge_publications made of each sequence of each bucket;
\* put: the subscriptions handed to tipc_sub_put, of which the purge has none.
tipc_nametbl_stop(hlist) ==
    LET purged == [b \in DOMAIN hlist |->
                      [i \in 1 .. Len(hlist[b]) |->
                          tipc_purge_publications(hlist[b][i])]]
    IN  [hlist |-> [b \in DOMAIN hlist |-> <<>>],
         purged |-> purged,
         put |-> {},
         ub |-> \E b \in DOMAIN hlist : \E i \in 1 .. Len(hlist[b]) : purged[b][i].ub]

\* cb->args of a dump that has not run yet.
NoCursor == [last_type |-> 0, last_lower |-> 0, last_publ |-> 0, done |-> FALSE]

\* Lines 913-948: list_for_each_entry_from over all_publ from entry i; c.room is
\* the number of publications the message still has room for.
RECURSIVE add_publ_loop(_, _, _, _)
add_publ_loop(seq, sseq, i, c) ==
    IF i > Len(sseq.info.all_publ)
    THEN [c EXCEPT !.err = "ok", !.last_publ = 0]
    ELSE IF c.room = 0
    THEN [c EXCEPT !.err = "EMSGSIZE", !.last_publ = sseq.info.all_publ[i].key]
    ELSE add_publ_loop(seq, sseq, i + 1,
                       [c EXCEPT !.room = @ - 1,
                                 !.out = Append(@, <<seq.type, sseq.lower, sseq.upper,
                                                     sseq.info.all_publ[i]>>)])

\* ub: no publication has the remembered key and the test of line 906 reads
\* p->key of the entry computed from the list head; match says whether the word
\* it reads there equals the key.
__tipc_nl_add_nametable_publ(seq, sseq, c, match) ==
    LET list == sseq.info.all_publ
        hits == {i \in 1 .. Len(list) : list[i].key = c.last_publ}
    IN  IF c.last_publ # 0
        THEN IF hits # {}
             THEN add_publ_loop(seq, sseq, CHOOSE i \in hits : \A j \in hits : i <= j, c)
             ELSE IF match
             THEN add_publ_loop(seq, sseq, Len(list) + 1, [c EXCEPT !.ub = TRUE])
             ELSE [c EXCEPT !.err = "EPIPE", !.ub = TRUE]
        ELSE add_publ_loop(seq, sseq, 1, c)

\* Lines 980-983: the cursor after a sub-sequence that ended the pass.
subseq_list_err(sseq, r) == [r EXCEPT !.last_lower = sseq.lower]

\* Lines 978-985: the loop over the sub-sequences from index idx; c is the
\* cursor, the message and its room as the loop has them.
RECURSIVE subseq_list_loop(_, _, _, _)
subseq_list_next(seq, idx, r, match) ==
    IF r.err # "ok"
    THEN subseq_list_err(sseq_at(seq, idx), r)
    ELSE subseq_list_loop(seq, idx + 1, r, match)

subseq_list_loop(seq, idx, c, match) ==
    IF idx >= first_free(seq)
    THEN [c EXCEPT !.err = "ok", !.last_lower = 0]
    ELSE subseq_list_next(seq, idx,
                          __tipc_nl_add_nametable_publ(seq, sseq_at(seq, idx), c, match),
                          match)

__tipc_nl_subseq_list(seq, c, match) ==
    LET idx == IF c.last_lower # 0 THEN nameseq_find_subseq(seq, c.last_lower) ELSE 0
    IN  IF idx = NOT_FOUND
        THEN [c EXCEPT !.err = "EPIPE"]
        ELSE subseq_list_loop(seq, idx, c, match)

\* Lines 1016-1027: hlist_for_each_entry_from_rcu from the sequence at pos.
RECURSIVE seq_list_chain(_, _, _, _)
seq_list_next(chain, pos, r, match) ==
    IF r.err # "ok"
    THEN [r EXCEPT !.last_type = chain[pos].type]
    ELSE seq_list_chain(chain, pos + 1, r, match)

seq_list_chain(chain, pos, c, match) ==
    IF pos > Len(chain)
    THEN [c EXCEPT !.err = "ok", !.last_type = 0]
    ELSE seq_list_next(chain, pos, __tipc_nl_subseq_list(chain[pos], c, match), match)

\* Lines 1003-1029: the loop over the buckets from bucket i.
RECURSIVE seq_list_buckets(_, _, _, _)
seq_list_bucket_next(hlist, b, r, match) ==
    IF r.err # "ok" THEN r ELSE seq_list_buckets(hlist, b + 1, r, match)

seq_list_buckets(hlist, i, c, match) ==
    LET todo == {b \in DOMAIN hlist : b >= i}
        b == CHOOSE x \in todo : \A y \in todo : x <= y
    IN  IF todo = {}
        THEN c
        ELSE IF c.last_type # 0
        THEN IF nametbl_find_seq(hlist, c.last_type) = 0
             THEN [c EXCEPT !.err = "EPIPE"]
             ELSE seq_list_bucket_next(hlist, b,
                      seq_list_chain(hlist[hash(c.last_type)],
                                     nametbl_find_seq(hlist, c.last_type), c, match),
                      match)
        ELSE seq_list_bucket_next(hlist, b, seq_list_chain(hlist[b], 1, c, match),
                                  match)

\* out: the publications put into the message, each with type, lower and upper.
tipc_nl_seq_list(hlist, last_type, last_lower, last_publ, room, match) ==
    seq_list_buckets(hlist, IF last_type # 0 THEN hash(last_type) ELSE 0,
                     [err |-> "ok", last_type |-> last_type, last_lower |-> last_lower,
                      last_publ |-> last_publ, out |-> <<>>, room |-> room,
                      ub |-> FALSE],
                     match)

\* args: cb->args after the call; intr: cb->prev_seq was set.
dump_result(r) ==
    [args |-> [last_type |-> r.last_type, last_lower |-> r.last_lower,
               last_publ |-> r.last_publ, done |-> r.err = "ok"],
     out |-> r.out, err |-> r.err,
     intr |-> r.err \notin {"ok", "EMSGSIZE"}, ub |-> r.ub]

tipc_nl_name_table_dump(hlist, args, room, match) ==
    IF args.done
    THEN [args |-> args, out |-> <<>>, err |-> "ok", intr |-> FALSE, ub |-> FALSE]
    ELSE dump_result(tipc_nl_seq_list(hlist, args.last_type, args.last_lower,
                                      args.last_publ, room, match))

\* The local publish: the result of tipc_nametbl_insert_publ and local_publ_count
\* after the call.
tipc_nametbl_publish(hlist, count, type, lower, upper, scope, port_ref, key, fail) ==
    IF count >= TIPC_MAX_PUBLICATIONS
    THEN [hlist |-> hlist, count |-> count, publ |-> NULL, tag |-> "limit",
          events |-> <<>>]
    ELSE LET r == tipc_nametbl_insert_publ(hlist, type, lower, upper, scope, OwnAddr,
                                           port_ref, key, fail)
         IN  [count |-> IF r.publ # NULL THEN (count + 1) % CountMod ELSE count] @@ r

\* The local withdraw: the result of tipc_nametbl_remove_publ (ub and partial as
\* tipc_nameseq_remove_publ has them) and local_publ_count after the call.
tipc_nametbl_withdraw(hlist, count, type, lower, port, key) ==
    LET r == tipc_nametbl_remove_publ(hlist, type, lower, OwnAddr, port, key)
    IN  [count |-> IF r.publ # NULL THEN (count - 1) % CountMod ELSE count] @@ r

----------------------------------------------------------------------------
(* rvu_sso.c: the in-unit accounting identifiers of the SSO *)

\* The PF/VF functions that send requests, the SSO groups attached to each of
\* them (pfvf->sso), and the number of work slots, SSO_AF_CONST::HWS.
SsoFuncs == {1, 2, 3}
SsoGroups == 2
SsoHws == 2

\* rvu.c: the first clear bit of the bitmap is set and returned; id is below 0
\* (-ENOSPC) when all max bits are set.
rvu_alloc_rsrc(rsrc) ==
    LET clear == {i \in 0 .. rsrc.max - 1 : i \notin rsrc.bmap}
        id == CHOOSE i \in clear : \A j \in clear : i <= j
    IN  IF clear = {}
        THEN [id |-> -1, rsrc |-> rsrc]
        ELSE [id |-> id, rsrc |-> [rsrc EXCEPT !.bmap = @ \cup {id}]]

\* rvu.c: the bit of the identifier is cleared.
rvu_free_rsrc(rsrc, id) == [rsrc EXCEPT !.bmap = @ \ {id}]

\* Lines 516-525: the bitmap of SSO_AF_CONST::HWS + 1 identifiers with one bit
\* reserved; no function has an identifier and no group is programmed.
rvu_sso_init ==
    [pfvf_ident |-> rvu_alloc_rsrc([max |-> SsoHws + 1, bmap |-> {}]).rsrc,
     sso_uniq_ident |-> [f \in SsoFuncs |-> 0],
     iu_accnt |-> [f \in SsoFuncs |-> [g \in 1 .. SsoGroups |-> 0]]]

\* s: the state of the block; iu_accnt[pcifunc][g] is the index written to
\* SSO_AF_HWGRPX_IU_ACCNT and SSO_AF_HWGRPX_AW_TAGSPACE of the function's group
\* g, 0 when the group is reset.
rvu_mbox_handler_SSO_LF_ALLOC(s, pcifunc, hwgrps) ==
    IF SsoGroups <= 0
    THEN [sso |-> s, rc |-> "SSO_AF_ERR_LF_INVALID"]
    ELSE LET a == IF s.sso_uniq_ident[pcifunc] = 0
                  THEN rvu_alloc_rsrc(s.pfvf_ident)
                  ELSE [id |-> s.sso_uniq_ident[pcifunc], rsrc |-> s.pfvf_ident]
         IN  IF a.id < 0
             THEN [sso |-> s, rc |-> "SSO_AF_ERR_AF_LF_ALLOC"]
             ELSE [sso |-> [s EXCEPT
                              !.pfvf_ident = a.rsrc,
                              !.sso_uniq_ident[pcifunc] = a.id,
                              !.iu_accnt[pcifunc] =
                                  [g \in 1 .. SsoGroups |-> IF g <= hwgrps THEN a.id ELSE @[g]]],
                   rc |-> "ok"]

\* Lines 321-337: the loop over the groups from group g; fail is the group
\* whose rvu_sso_lf_teardown returns an error, 0 for none.  A group that is not
\* attached (rvu_get_lf returns -ENOENT) and a failing teardown end the request.
RECURSIVE lf_free_loop(_, _, _, _, _)
lf_free_loop(s, pcifunc, g, hwgrps, fail) ==
    IF g > hwgrps
    THEN [sso |-> s, rc |-> "ok"]
    ELSE IF g > SsoGroups
    THEN [sso |-> s, rc |-> "SSO_AF_ERR_LF_INVALID"]
    ELSE IF g = fail
    THEN [sso |-> s, rc |-> "err"]
    ELSE lf_free_loop([s EXCEPT !.iu_accnt[pcifunc][g] = 0], pcifunc, g + 1, hwgrps, fail)

\* freed: the identifier handed to rvu_free_rsrc, 0 when none was.
rvu_mbox_handler_SSO_LF_FREE(s, pcifunc, hwgrps, fail) ==
    LET r == lf_free_loop(s, pcifunc, 1, hwgrps, fail)
        ident == r.sso.sso_uniq_ident[pcifunc]
    IN  IF r.rc # "ok"
        THEN [sso |-> r.sso, rc |-> r.rc, freed |-> 0]
        ELSE IF ident # 0
        THEN [sso |-> [r.sso EXCEPT !.pfvf_ident = rvu_free_rsrc(@, ident)],
              rc |-> "ok", freed |-> ident]
        ELSE [sso |-> r.sso, rc |-> "ok", freed |-> 0]

----------------------------------------------------------------------------
(* State, calls *)

NoSub == [type |-> 0, lower |-> 0, upper |-> 0, no_status |-> FALSE, linked |-> FALSE]

RECURSIVE sum_len(_, _)
sum_len(sseqs, i) ==
    IF i > Len(sseqs) THEN 0 ELSE Len(sseqs[i].info.all_publ) + sum_len(sseqs, i + 1)

RECURSIVE sum_chain(_, _)
sum_chain(chain, i) ==
    IF i > Len(chain) THEN 0 ELSE sum_len(chain[i].sseqs, 1) + sum_chain(chain, i + 1)

RECURSIVE sum_buckets(_, _)
sum_buckets(hlist, bs) ==
    IF bs = {}
    THEN 0
    ELSE LET b == CHOOSE x \in bs : TRUE
         IN  sum_chain(hlist[b], 1) + sum_buckets(hlist, bs \ {b})

\* The number of publications in the table.
NumPubl(hlist) == sum_buckets(hlist, Buckets)

Threads == {1, 2}

\* A thread that is in no call.
Idle == [call |-> "idle"]

Init ==
    /\ seq_hlist = [b \in Buckets |-> <<>>]
    /\ subs = [s \in Subscribers |-> NoSub]
    /\ oops = FALSE
    /\ local_publ_count = 0
    /\ nametbl_lock = 0
    /\ pc = [t \in Threads |-> Idle]
    /\ stopped = FALSE
    /\ cb = NoCursor
    /\ seq_lock = [type \in Types |-> 0]
    /\ ncalls = 0
    /\ log = <<>>
    /\ gen = [k \in {"seq", "publ1", "publ2"} \X LockTypes |-> 0]
    /\ rcu = {}
    /\ sso = rvu_sso_init

InsertPubl(type, lower, upper, scope, node, port, key) ==
    LET r == tipc_nametbl_insert_publ(seq_hlist, type, lower, upper, scope, node,
                                      port, key, NoFail)
    IN  /\ ~oops
        /\ r.publ # NULL => NumPubl(seq_hlist) < MaxPubl
        /\ seq_hlist' = r.hlist
        /\ UNCHANGED <<subs, oops, rest>>

\* A withdraw that runs list_del on an unlinked node either faults there, the
\* table left as the call had it, or (list debugging) skips the node and goes on.
RemovePubl(type, lower, node, port, key) ==
    LET r == tipc_nametbl_remove_publ(seq_hlist, type, lower, node, port, key)
    IN  /\ ~oops
        /\ \E fault \in IF r.ub THEN BOOLEAN ELSE {FALSE} :
              /\ oops' = fault
              /\ seq_hlist' = IF fault THEN r.partial ELSE r.hlist
        /\ UNCHANGED <<subs, rest>>

\* A translate that runs list_first_entry on an empty list either faults on what
\* it reads there or returns it; the table is left as it is.
Translate(type, instance, destnode) ==
    LET r == tipc_nametbl_translate(seq_hlist, type, instance, destnode)
    IN  /\ ~oops
        /\ seq_hlist' = r.hlist
        /\ \E fault \in IF r.ub THEN BOOLEAN ELSE {FALSE} : oops' = fault
        /\ UNCHANGED <<subs, rest>>

Lookup(type, instance, scope, dsts, exclude, all) ==
    LET r == tipc_nametbl_lookup(seq_hlist, type, instance, scope, dsts, exclude, all)
    IN  /\ ~oops
        /\ seq_hlist' = r.hlist
        /\ UNCHANGED <<subs, oops, rest>>

\* s is a subscription object on no list, created with these attributes.
Subscribe(s, type, lower, upper, no_status) ==
    LET sub == [type |-> type, lower |-> lower, upper |-> upper,
                no_status |-> no_status, linked |-> TRUE]
        r == tipc_nametbl_subscribe(seq_hlist, s, sub, NoFail)
    IN  /\ ~oops
        /\ ~subs[s].linked
        /\ seq_hlist' = r.hlist
        /\ subs' = [subs EXCEPT ![s] = sub]
        /\ UNCHANGED <<oops, rest>>

\* The subscriber drops the object after the call.
Unsubscribe(s) ==
    LET r == tipc_nametbl_unsubscribe(seq_hlist, s, subs[s])
    IN  /\ ~oops
        /\ subs[s].linked
        /\ seq_hlist' = r.hlist
        /\ subs' = [subs EXCEPT ![s] = NoSub]
        /\ UNCHANGED <<oops, rest>>

Next ==
    \/ \E type \in Types, lower \in Instances, upper \in Instances, scope \in Scopes,
          p \in Publishers, key \in Keys :
          lower <= upper /\ InsertPubl(type, lower, upper, scope, p[1], p[2], key)
    \/ \E type \in Types, a \in IllegalArgs :
          InsertPubl(type, a[1], a[2], a[3], OwnAddr, 1, 1)
    \/ \E type \in Types, lower \in Instances, node \in Nodes, port \in Ports,
          key \in Keys :
          RemovePubl(type, lower, node, port, key)
    \/ \E type \in Types, instance \in Instances, destnode \in DestNodes :
          Translate(type, instance, destnode)
    \/ \E type \in Types, instance \in Instances, scope \in LookupScopes,
          exclude \in Ports, all \in BOOLEAN :
          Lookup(type, instance, scope, <<>>, exclude, all)
    \/ \E s \in SubIds, type \in Types, lower \in SubLowers, upper \in SubUppers,
          no_status \in BOOLEAN :
          Subscribe(s, type, lower, upper, no_status)
    \/ \E s \in SubIds : Unsubscribe(s)

Spec == Init /\ [][Next]_vars

\* The local calls, next to those of Next.  The model follows local_publ_count
\* through one wrap below zero and no further.
NametblPublish(type, lower, upper, scope, port, key) ==
    LET r == tipc_nametbl_publish(seq_hlist, local_publ_count, type, lower, upper,
                                  scope, port, key, NoFail)
    IN  /\ ~oops
        /\ r.publ # NULL => NumPubl(seq_hlist) < MaxPubl
        /\ seq_hlist' = r.hlist
        /\ local_publ_count' = r.count
        /\ UNCHANGED <<subs, oops, nametbl_lock, pc, other>>

NametblWithdraw(type, lower, port, key) ==
    LET r == tipc_nametbl_withdraw(seq_hlist, local_publ_count, type, lower, port, key)
    IN  /\ ~oops
        /\ r.publ # NULL => local_publ_count <= TIPC_MAX_PUBLICATIONS
        /\ \E fault \in IF r.ub THEN BOOLEAN ELSE {FALSE} :
              /\ oops' = fault
              /\ seq_hlist' = IF fault THEN r.partial ELSE r.hlist
              /\ local_publ_count' = IF fault THEN local_publ_count ELSE r.count
        /\ UNCHANGED <<subs, nametbl_lock, pc, other>>

NextLocal ==
    \/ Next
    \/ \E type \in Types, lower \in Instances, upper \in Instances, scope \in Scopes,
          port \in Ports, key \in Keys :
          lower <= upper /\ NametblPublish(type, lower, upper, scope, port, key)
    \/ \E type \in Types, a \in IllegalArgs :
          NametblPublish(type, a[1], a[2], a[3], 1, 1)
    \/ \E type \in Types, lower \in Instances, port \in Ports, key \in Keys :
          NametblWithdraw(type, lower, port, key)

SpecLocal == Init /\ [][NextLocal]_vars

\* The allocations of a publish: kzalloc of the name_seq and of its array
\* (tipc_nameseq_create), the array grown, the name_info, the publication.
AllocSites == {"nseq", "sseq", "sseqs", "info", "publ"}

\* tipc_nametbl_insert_publ with the allocation at site failing when reached.
InsertPublNoMem(type, lower, upper, scope, node, port, key, site) ==
    LET r == tipc_nametbl_insert_publ(seq_hlist, type, lower, upper, scope, node,
                                      port, key, {site})
    IN  /\ ~oops
        /\ r.publ # NULL => NumPubl(seq_hlist) < MaxPubl
        /\ seq_hlist' = r.hlist
        /\ UNCHANGED <<subs, oops, rest>>

NextOOM ==
    \/ Next
    \/ \E type \in Types, lower \in Instances, upper \in Instances, scope \in Scopes,
          p \in Publishers, key \in Keys, site \in AllocSites :
          lower <= upper /\ InsertPublNoMem(type, lower, upper, scope, p[1], p[2], key, site)

SpecOOM == Init /\ [][NextOOM]_vars

\* Publish, withdraw, subscribe and unsubscribe with two subscription objects.
NextSubs ==
    \/ \E type \in Types, lower \in Instances, upper \in Instances, scope \in Scopes,
          p \in Publishers, key \in Keys :
          lower <= upper /\ InsertPubl(type, lower, upper, scope, p[1], p[2], key)
    \/ \E type \in Types, lower \in Instances, node \in Nodes, port \in Ports,
          key \in Keys :
          RemovePubl(type, lower, node, port, key)
    \/ \E s \in Subscribers, type \in Types, lower \in SubLowers, upper \in SubUppers,
          no_status \in BOOLEAN :
          Subscribe(s, type, lower, upper, no_status)
    \/ \E s \in Subscribers : Unsubscribe(s)

SpecSubs == Init /\ [][NextSubs]_vars

\* The scopes of the publications of the multicast specification.
McScopes == {TIPC_CLUSTER_SCOPE, TIPC_NODE_SCOPE}

\* The sockets and the remote node that publish in it.
McPublishers == {<<OwnAddr, 1>>, <<OwnAddr, 2>>, <<RemoteAddr, 1>>}

McLookup(type, lower, upper, scope, exact) ==
    /\ ~oops
    /\ tipc_nametbl_mc_lookup(seq_hlist, type, lower, upper, scope, exact, <<>>)
           \in Seq({0} \X Ports)
    /\ UNCHANGED vars

\* Publications of cluster and node scope, withdrawals and multicast lookups.
NextScopes ==
    \/ \E type \in Types, lower \in Instances, upper \in Instances,
          scope \in McScopes, p \in McPublishers, key \in Keys :
          lower <= upper /\ InsertPubl(type, lower, upper, scope, p[1], p[2], key)
    \/ \E type \in Types, lower \in Instances, node \in Nodes, port \in Ports,
          key \in Keys :
          RemovePubl(type, lower, node, port, key)
    \/ \E type \in Types, lower \in Instances, upper \in Instances,
          scope \in McScopes, exact \in BOOLEAN :
          McLookup(type, lower, upper, scope, exact)

SpecScopes == Init /\ [][NextScopes]_vars

\* A stop that reads the binding set of a sequence without sub-sequences either
\* faults there or finds nothing on the list it reads.
Stop ==
    LET r == tipc_nametbl_stop(seq_hlist)
    IN  /\ ~oops /\ ~stopped
        /\ \E fault \in IF r.ub THEN BOOLEAN ELSE {FALSE} :
              /\ oops' = fault
              /\ stopped' = ~fault
              /\ seq_hlist' = IF fault THEN seq_hlist ELSE r.hlist
        /\ UNCHANGED <<subs, local_publ_count, nametbl_lock, pc, cb, seq_lock, ncalls,
                       log, gen, rcu, sso>>

\* Publish, withdraw, subscribe and unsubscribe on a table that is live, and
\* its release.
NextStop ==
    \/ \E type \in Types, lower \in Instances, upper \in Instances, scope \in Scopes,
          p \in Publishers, key \in Keys :
          ~stopped /\ lower <= upper
              /\ InsertPubl(type, lower, upper, scope, p[1], p[2], key)
    \/ \E type \in Types, lower \in Instances, node \in Nodes, port \in Ports,
          key \in Keys :
          ~stopped /\ RemovePubl(type, lower, node, port, key)
    \/ \E s \in SubIds, type \in Types, lower \in SubLowers, upper \in SubUppers,
          no_status \in BOOLEAN :
          ~stopped /\ Subscribe(s, type, lower, upper, no_status)
    \/ \E s \in SubIds : ~stopped /\ Unsubscribe(s)
    \/ Stop

SpecStop == Init /\ [][NextStop]_vars

\* The references of the subscription objects: log holds one entry for each
\* tipc_sub_get and tipc_sub_put of an object that is allocated, in the order
\* of the calls.
RefEntry(s, kind) == [sub |-> s, kind |-> kind]

\* subscr.c allocates the object and calls tipc_nametbl_subscribe, whose
\* tipc_nameseq_create may fail; the object is attached, and tipc_sub_get
\* called (line 394), when a name_seq was found or created.
RefSubscribe(s, type, lower, upper, fail) ==
    LET sub == [type |-> type, lower |-> lower, upper |-> upper,
                no_status |-> FALSE, linked |-> TRUE]
        r == tipc_nametbl_subscribe(seq_hlist, s, sub, fail)
        fresh == SelectSeq(log, LAMBDA e : e.sub # s)
    IN  /\ ~oops /\ ~stopped
        /\ subs[s] = NoSub
        /\ seq_hlist' = r.hlist
        /\ subs' = [subs EXCEPT ![s] = [sub EXCEPT !.linked = r.tag = "subscribed"]]
        /\ log' = IF r.tag = "subscribed" THEN Append(fresh, RefEntry(s, "get")) ELSE fresh
        /\ UNCHANGED <<oops, local_publ_count, nametbl_lock, pc, stopped, cb, seq_lock,
                       ncalls, gen, rcu, sso>>

\* subscr.c calls tipc_nametbl_unsubscribe once for every object it passed to
\* tipc_nametbl_subscribe, attached or not, and drops the object.
RefUnsubscribe(s) ==
    LET r == tipc_nametbl_unsubscribe(seq_hlist, s, subs[s])
    IN  /\ ~oops /\ ~stopped
        /\ subs[s] # NoSub
        /\ seq_hlist' = r.hlist
        /\ subs' = [subs EXCEPT ![s] = NoSub]
        /\ log' = IF r.put THEN Append(log, RefEntry(s, "put")) ELSE log
        /\ UNCHANGED <<oops, local_publ_count, nametbl_lock, pc, stopped, cb, seq_lock,
                       ncalls, gen, rcu, sso>>

\* Subscribe with and without memory for the name_seq, unsubscribe, the
\* publications that make and unmake name_seqs, and stop.
NextRefs ==
    \/ \E type \in Types, lower \in Instances, scope \in Scopes, p \in Publishers,
          key \in Keys :
          ~stopped /\ InsertPubl(type, lower, lower, scope, p[1], p[2], key)
    \/ \E type \in Types, lower \in Instances, node \in Nodes, port \in Ports,
          key \in Keys :
          ~stopped /\ RemovePubl(type, lower, node, port, key)
    \/ \E s \in Subscribers, type \in Types, lower \in SubLowers, upper \in SubUppers,
          fail \in {NoFail, {"nseq"}} :
          RefSubscribe(s, type, lower, upper, fail)
    \/ \E s \in Subscribers : RefUnsubscribe(s)
    \/ Stop

SpecRefs == Init /\ [][NextRefs]_vars

\* The publications a dump message has room for.
DumpRooms == {1, 2}

\* The keys and the publishers of the publications of the dump specification.
DumpKeys == {1, 2}

DumpPublishers == {<<OwnAddr, 1>>, <<RemoteAddr, 1>>}

\* One pass of the dump into a message with room for that many publications.
Dump(room, match) ==
    LET r == tipc_nl_name_table_dump(seq_hlist, cb, room, match)
    IN  /\ ~oops
        /\ ~cb.done
        /\ match => r.ub
        /\ cb' = r.args
        /\ UNCHANGED <<seq_hlist, subs, oops, local_publ_count, nametbl_lock, pc,
                       stopped, seq_lock, ncalls, log, gen, rcu, sso>>

\* netlink starts another dump with cb->args zeroed.
DumpStart ==
    /\ ~oops
    /\ cb # NoCursor
    /\ cb' = NoCursor
    /\ UNCHANGED <<seq_hlist, subs, oops, local_publ_count, nametbl_lock, pc, stopped,
                   seq_lock, ncalls, log, gen, rcu, sso>>

\* Publish and withdraw between the passes of paginated dumps.
NextDump ==
    \/ \E type \in Types, lower \in Instances, upper \in Instances, scope \in Scopes,
          p \in DumpPublishers, key \in DumpKeys :
          lower <= upper /\ InsertPubl(type, lower, upper, scope, p[1], p[2], key)
    \/ \E type \in Types, lower \in Instances, p \in DumpPublishers, key \in DumpKeys :
          RemovePubl(type, lower, p[1], p[2], key)
    \/ \E room \in DumpRooms, match \in BOOLEAN : Dump(room, match)
    \/ DumpStart

SpecDump == Init /\ [][NextDump]_vars

----------------------------------------------------------------------------
(* Calls of two threads, in the steps nametbl_lock orders *)

\* What a thread in a call keeps: the call, where it is in it, its arguments, and
\* whether nametbl_find_seq gave it a sequence.
InCall(call, at, a) == [call |-> call, at |-> at, a |-> a, found |-> FALSE]

\* <<type, lower, upper, scope, port, key>> of tipc_nametbl_publish.
ThreadPublishArgs ==
    {a \in Types \X Instances \X Instances \X Scopes \X Ports \X Keys : a[2] <= a[3]}

\* <<type, lower, port, key>> of tipc_nametbl_withdraw.
ThreadWithdrawArgs == Types \X Instances \X Ports \X Keys

\* <<s, type, lower, upper, no_status>> of a subscription to attach.
ThreadSubscribeArgs == SubIds \X Types \X SubLowers \X SubUppers \X BOOLEAN

\* spin_lock_bh that goes on whoever holds the lock.
lock_free_any_holder(lock) == lock >= 0

\* spin_lock_bh(&tn->nametbl_lock) that does not wait for the lock.
lock_free_always(lock) == TRUE

\* spin_lock_bh(&tn->nametbl_lock) goes on when no thread holds the lock.
lock_free(lock) == lock = 0

\* Lines 705-711: the lock taken and the limit tested.
ThreadPublish(t, a) ==
    /\ ~oops /\ pc[t] = Idle
    /\ lock_free(nametbl_lock)
    /\ nametbl_lock' = t
    /\ pc' = [pc EXCEPT ![t] =
                 InCall("publish",
                        IF local_publ_count >= TIPC_MAX_PUBLICATIONS
                        THEN "unlock" ELSE "find", a)]
    /\ UNCHANGED <<seq_hlist, subs, oops, local_publ_count, other>>

\* Line 774: the lock taken for a subscription on no list.
ThreadSubscribe(t, a) ==
    /\ ~oops /\ pc[t] = Idle
    /\ ~subs[a[1]].linked
    /\ \A u \in Threads : pc[u] # Idle => ~(pc[u].call = "subscribe" /\ pc[u].a[1] = a[1])
    /\ lock_free(nametbl_lock)
    /\ nametbl_lock' = t
    /\ pc' = [pc EXCEPT ![t] = InCall("subscribe", "find", a)]
    /\ UNCHANGED <<seq_hlist, subs, oops, local_publ_count, other>>

\* Lines 442 and 775: nametbl_find_seq.
ThreadFind(t) ==
    /\ ~oops /\ pc[t] # Idle /\ pc[t].at = "find"
    /\ pc' = [pc EXCEPT ![t].found =
                 nametbl_find_seq(seq_hlist,
                                  IF pc[t].call = "publish" THEN pc[t].a[1]
                                  ELSE pc[t].a[2]) # 0,
                 ![t].at = "body"]
    /\ UNCHANGED <<seq_hlist, subs, oops, local_publ_count, nametbl_lock, other>>

\* The sequence the thread found, 0 when it found none and will create one.  A
\* sequence that was found and has been freed since is a use after free.
ThreadPos(t, type) == IF pc[t].found THEN nametbl_find_seq(seq_hlist, type) ELSE 0

ThreadGone(t, type) == pc[t].found /\ nametbl_find_seq(seq_hlist, type) = 0

\* Lines 445-460 and 713-719: the rest of tipc_nametbl_insert_publ, and the count.
ThreadInsert(t) ==
    /\ ~oops /\ pc[t] # Idle /\ pc[t].call = "publish" /\ pc[t].at = "body"
    /\ LET a == pc[t].a
           r == insert_publ_at(seq_hlist, ThreadPos(t, a[1]), a[1], a[2], a[3], a[4],
                               OwnAddr, a[5], a[6], NoFail)
       IN  IF ThreadGone(t, a[1])
           THEN oops' = TRUE /\ UNCHANGED <<seq_hlist, local_publ_count>>
           ELSE /\ r.publ # NULL => NumPubl(seq_hlist) < MaxPubl
                /\ seq_hlist' = r.hlist
                /\ local_publ_count' = IF r.publ # NULL
                                       THEN (local_publ_count + 1) % CountMod
                                       ELSE local_publ_count
                /\ oops' = oops
    /\ pc' = [pc EXCEPT ![t].at = "unlock"]
    /\ UNCHANGED <<subs, nametbl_lock, other>>

\* Lines 776-788: the rest of tipc_nametbl_subscribe.
ThreadAttach(t) ==
    /\ ~oops /\ pc[t] # Idle /\ pc[t].call = "subscribe" /\ pc[t].at = "body"
    /\ LET a == pc[t].a
           sub == [type |-> a[2], lower |-> a[3], upper |-> a[4],
                   no_status |-> a[5], linked |-> TRUE]
           r == subscribe_at(seq_hlist, ThreadPos(t, a[2]), a[1], sub, NoFail)
       IN  IF ThreadGone(t, a[2])
           THEN oops' = TRUE /\ UNCHANGED <<seq_hlist, subs>>
           ELSE /\ seq_hlist' = r.hlist
                /\ subs' = [subs EXCEPT ![a[1]] = sub]
                /\ oops' = oops
    /\ pc' = [pc EXCEPT ![t].at = "unlock"]
    /\ UNCHANGED <<local_publ_count, nametbl_lock, other>>

\* Lines 738-751: tipc_nametbl_withdraw from the lock to the last list_del.
ThreadWithdraw(t, a) ==
    LET r == tipc_nametbl_withdraw(seq_hlist, local_publ_count, a[1], a[2], a[3], a[4])
    IN  /\ ~oops /\ pc[t] = Idle
        /\ lock_free(nametbl_lock)
        /\ nametbl_lock' = t
        /\ \E fault \in IF r.ub THEN BOOLEAN ELSE {FALSE} :
              /\ oops' = fault
              /\ seq_hlist' = IF fault THEN r.partial ELSE r.hlist
              /\ local_publ_count' = IF fault THEN local_publ_count ELSE r.count
        /\ pc' = [pc EXCEPT ![t] = InCall("withdraw", "unlock", a)]
        /\ UNCHANGED <<subs, other>>

\* Lines 802-816: tipc_nametbl_unsubscribe from the lock to the unlink.
ThreadUnsubscribe(t, s) ==
    LET r == tipc_nametbl_unsubscribe(seq_hlist, s, subs[s])
    IN  /\ ~oops /\ pc[t] = Idle
        /\ subs[s].linked
        /\ lock_free(nametbl_lock)
        /\ nametbl_lock' = t
        /\ seq_hlist' = r.hlist
        /\ subs' = [subs EXCEPT ![s] = NoSub]
        /\ pc' = [pc EXCEPT ![t] = InCall("unsubscribe", "unlock", <<s>>)]
        /\ UNCHANGED <<oops, local_publ_count, other>>

\* spin_unlock_bh(&tn->nametbl_lock) and the return.
ThreadUnlock(t) ==
    /\ ~oops /\ pc[t] # Idle /\ pc[t].at = "unlock"
    /\ nametbl_lock' = IF nametbl_lock = t THEN 0 ELSE nametbl_lock
    /\ pc' = [pc EXCEPT ![t] = Idle]
    /\ UNCHANGED <<seq_hlist, subs, oops, local_publ_count, other>>

NextThreads ==
    \E t \in Threads :
        \/ \E a \in ThreadPublishArgs : ThreadPublish(t, a)
        \/ \E a \in ThreadSubscribeArgs : ThreadSubscribe(t, a)
        \/ ThreadFind(t)
        \/ ThreadInsert(t)
        \/ ThreadAttach(t)
        \/ \E a \in ThreadWithdrawArgs : ThreadWithdraw(t, a)
        \/ \E s \in SubIds : ThreadUnsubscribe(t, s)
        \/ ThreadUnlock(t)

SpecThreads == Init /\ [][NextThreads]_vars

\* The calls that may change the table in the specification of the event order.
MaxCalls == 4

\* A thread in publish, withdraw or subscribe: the statement it is at, the
\* reports it has still to make, the number of its call among those that changed
\* the table, and whether it has a publication to count.
OrderCall(call, at, a) ==
    [call |-> call, at |-> at, a |-> a, events |-> <<>>, n |-> 0, publ |-> FALSE]

\* <<type, lower, upper, scope, port, key>>, <<type, lower, port, key>> and
\* <<s, type, lower, upper>> of the calls.
OrderPublishArgs == {<<type, i, i, scope, 1, key>> :
                        <<type, i, scope, key>> \in Types \X Instances \X Scopes \X Keys}

OrderWithdrawArgs == {<<type, i, 1, key>> : <<type, i, key>> \in Types \X Instances \X Keys}

OrderSubscribeArgs == Subscribers \X Types \X SubLowers \X SubUppers

OrderArgs(call) ==
    IF call = "publish" THEN OrderPublishArgs
    ELSE IF call = "withdraw" THEN OrderWithdrawArgs ELSE OrderSubscribeArgs

\* The type the call of thread t is about.
OrderType(t) == IF pc[t].call = "subscribe" THEN pc[t].a[2] ELSE pc[t].a[1]

\* Lines 705-711, 738 and 774: spin_lock_bh(&tn->nametbl_lock), and the limit
\* test of a publish.
OrderLock(t, call, a) ==
    /\ ~oops /\ pc[t] = Idle
    /\ ncalls < MaxCalls
    /\ call = "subscribe" =>
           /\ ~subs[a[1]].linked
           /\ \A u \in Threads :
                  pc[u] # Idle => ~(pc[u].call = "subscribe" /\ pc[u].a[1] = a[1])
    /\ lock_free(nametbl_lock)
    /\ nametbl_lock' = t
    /\ pc' = [pc EXCEPT ![t] =
                 OrderCall(call,
                           IF call = "publish"
                              /\ local_publ_count >= TIPC_MAX_PUBLICATIONS
                           THEN "unlock" ELSE "find", a)]
    /\ UNCHANGED <<seq_hlist, subs, oops, local_publ_count, stopped, cb, seq_lock,
                   ncalls, log, gen, rcu, sso>>

\* Lines 442-456, 467-473 and 775-779: nametbl_find_seq, tipc_nameseq_create for
\* a publish or subscribe that found none, and spin_lock_bh(&seq->lock).
OrderFind(t) ==
    /\ ~oops /\ pc[t] # Idle /\ pc[t].at = "find"
    /\ LET type == OrderType(t)
           pos == nametbl_find_seq(seq_hlist, type)
       IN  IF pos = 0 /\ pc[t].call = "withdraw"
           THEN /\ pc' = [pc EXCEPT ![t].at = "unlock"]
                /\ UNCHANGED <<seq_hlist, seq_lock>>
           ELSE /\ lock_free(seq_lock[type])
                /\ seq_lock' = [seq_lock EXCEPT ![type] = t]
                /\ seq_hlist' = IF pos = 0
                                THEN [seq_hlist EXCEPT ![hash(type)] =
                                         list_add(tipc_nameseq_create(type, NoFail), @)]
                                ELSE seq_hlist
                /\ pc' = [pc EXCEPT ![t].at = "body"]
    /\ UNCHANGED <<subs, oops, local_publ_count, nametbl_lock, stopped, cb, ncalls, log, gen,
                   rcu, sso>>

\* The thread goes on to its reports as call number n when it changed the table.
OrderReports(t, events, changed) ==
    /\ pc' = [pc EXCEPT ![t].at = "deliver", ![t].events = events,
                        ![t].n = IF changed THEN ncalls + 1 ELSE 0,
                        ![t].publ = changed]
    /\ ncalls' = IF changed THEN ncalls + 1 ELSE ncalls

\* Lines 457, 474 and 780 up to the first report: the table changed by
\* tipc_nameseq_insert_publ, tipc_nameseq_remove_publ or tipc_nameseq_subscribe.
OrderBody(t) ==
    /\ ~oops /\ pc[t] # Idle /\ pc[t].at = "body"
    /\ LET a == pc[t].a
           type == OrderType(t)
           pos == nametbl_find_seq(seq_hlist, type)
       IN  IF pos = 0
           THEN /\ oops' = TRUE
                /\ UNCHANGED <<seq_hlist, subs, pc, ncalls>>
           ELSE IF pc[t].call = "publish"
           THEN LET r == insert_publ_at(seq_hlist, pos, a[1], a[2], a[3], a[4], OwnAddr,
                                        a[5], a[6], NoFail)
                IN  /\ r.publ # NULL => NumPubl(seq_hlist) < MaxPubl
                    /\ seq_hlist' = r.hlist
                    /\ OrderReports(t, r.events, r.publ # NULL)
                    /\ UNCHANGED <<subs, oops>>
           ELSE IF pc[t].call = "withdraw"
           THEN LET r == tipc_nameseq_remove_publ(seq_hlist[hash(type)][pos], a[2],
                                                  OwnAddr, a[3], a[4])
                IN  \E fault \in IF r.ub THEN BOOLEAN ELSE {FALSE} :
                        /\ oops' = fault
                        /\ seq_hlist' = [seq_hlist EXCEPT ![hash(type)][pos] =
                                            IF fault THEN r.partial ELSE r.nseq]
                        /\ OrderReports(t, r.events, r.publ # NULL)
                        /\ UNCHANGED subs
           ELSE LET sub == [type |-> a[2], lower |-> a[3], upper |-> a[4],
                            no_status |-> FALSE, linked |-> TRUE]
                    r == tipc_nameseq_subscribe(seq_hlist[hash(type)][pos], a[1], sub)
                IN  /\ seq_hlist' = [seq_hlist EXCEPT ![hash(type)][pos] = r.nseq]
                    /\ subs' = [subs EXCEPT ![a[1]] = sub]
                    /\ OrderReports(t, r.events, TRUE)
                    /\ UNCHANGED oops
    /\ UNCHANGED <<local_publ_count, nametbl_lock, stopped, cb, seq_lock, log, gen,
                   rcu, sso>>

\* One tipc_sub_report_overlap of the loops of lines 306-311, 366-371 and
\* 400-416.
OrderDeliver(t) ==
    /\ ~oops /\ pc[t] # Idle /\ pc[t].at = "deliver"
    /\ pc[t].events # <<>>
    /\ log' = Append(log, [call |-> pc[t].n, kind |-> pc[t].call,
                            ev |-> Head(pc[t].events)])
    /\ pc' = [pc EXCEPT ![t].events = Tail(@)]
    /\ UNCHANGED <<seq_hlist, subs, oops, local_publ_count, nametbl_lock, stopped, cb,
                   seq_lock, ncalls, gen, rcu, sso>>

\* Lines 459, 475-483 and 781 with 715-716 and 741-742: the sequence unlinked
\* by a withdraw that emptied it, spin_unlock_bh(&seq->lock) and the count.
OrderSeqUnlock(t) ==
    /\ ~oops /\ pc[t] # Idle /\ pc[t].at = "deliver"
    /\ pc[t].events = <<>>
    /\ LET type == OrderType(t)
           pos == nametbl_find_seq(seq_hlist, type)
       IN  /\ seq_hlist' = IF /\ pc[t].call = "withdraw"
                              /\ pos # 0
                              /\ first_free(seq_hlist[hash(type)][pos]) = 0
                              /\ seq_hlist[hash(type)][pos].subscriptions = <<>>
                           THEN hlist_del(seq_hlist, hash(type), pos)
                           ELSE seq_hlist
           /\ seq_lock' = [seq_lock EXCEPT ![type] = IF @ = t THEN 0 ELSE @]
    /\ local_publ_count' =
           IF pc[t].call = "publish" /\ pc[t].publ
           THEN (local_publ_count + 1) % CountMod
           ELSE IF pc[t].call = "withdraw" /\ pc[t].publ
           THEN (local_publ_count + CountMod - 1) % CountMod
           ELSE local_publ_count
    /\ pc' = [pc EXCEPT ![t].at = "unlock"]
    /\ UNCHANGED <<subs, oops, nametbl_lock, stopped, cb, ncalls, log, gen, rcu, sso>>

\* Lines 721, 753 and 789: spin_unlock_bh(&tn->nametbl_lock) and the return.
OrderUnlock(t) ==
    /\ ~oops /\ pc[t] # Idle /\ pc[t].at = "unlock"
    /\ nametbl_lock' = IF nametbl_lock = t THEN 0 ELSE nametbl_lock
    /\ pc' = [pc EXCEPT ![t] = Idle]
    /\ UNCHANGED <<seq_hlist, subs, oops, local_publ_count, stopped, cb, seq_lock,
                   ncalls, log, gen, rcu, sso>>

NextOrder ==
    \E t \in Threads :
        \/ \E call \in {"publish", "withdraw", "subscribe"} :
              \E a \in OrderArgs(call) : OrderLock(t, call, a)
        \/ OrderFind(t)
        \/ OrderBody(t)
        \/ OrderDeliver(t)
        \/ OrderSeqUnlock(t)
        \/ OrderUnlock(t)

SpecOrder == Init /\ [][NextOrder]_vars

\* The calls of the event order with two ports to publish on and subscriptions
\* for the whole range of instances: <<type, lower, upper, scope, port, key>>,
\* <<type, lower, port, key>> and <<s, type, lower, upper>>.
EventArgs(call) ==
    IF call = "publish"
    THEN {<<type, i, i, scope, port, key>> :
             <<type, i, scope, port, key>> \in Types \X Instances \X Scopes \X Ports \X Keys}
    ELSE IF call = "withdraw"
    THEN {<<type, i, port, key>> : <<type, i, port, key>> \in Types \X Instances \X Ports \X Keys}
    ELSE Subscribers \X Types \X {0} \X SubUppers

NextEvents ==
    \E t \in Threads :
        \/ \E call \in {"publish", "withdraw", "subscribe"} :
              \E a \in EventArgs(call) : OrderLock(t, call, a)
        \/ OrderFind(t)
        \/ OrderBody(t)
        \/ OrderDeliver(t)
        \/ OrderSeqUnlock(t)
        \/ OrderUnlock(t)

SpecEvents == Init /\ [][NextEvents]_vars


\* The objects of one kind and type that may be allocated and not yet freed, in
\* the specification of the locks and of the deferred reclamation.
MaxGen == 1

\* spin_unlock_bh that leaves the lock held.
spin_unlock_bh_kept(held, lock) == held

\* The locks a thread holds, in the order it took them, after spin_unlock_bh.
spin_unlock_bh(held, lock) == list_del(lock, held)

\* kfree in the place of kfree_rcu: nobody is waited for.
kfree_now(readers) == {}

\* rcupdate.h: kfree_rcu frees the object when the threads that are inside a
\* read-side section at the call have left it.
kfree_rcu(readers) == readers

\* The name_seq of a type that is on its chain, and its publication of instance
\* 1 or 2; no object; and tn->nametbl_lock among the locks a thread holds.
SeqObj(type) == <<"seq", type, gen[<<"seq", type>>]>>
PublKind(lower) == IF lower = 1 THEN "publ1" ELSE "publ2"
PublObj(type, lower) == <<PublKind(lower), type, gen[<<PublKind(lower), type>>]>>
NoObj == <<"none", 0, 0>>
DirLock == <<"nametbl_lock", 0, 0>>

\* kzalloc: the objects of a kind and type that are not allocated.
FreeObjs(kind, type) ==
    {n \in 1 .. MaxGen : \A e \in rcu : e.obj # <<kind, type, n>>}

NewObj(kind, type) == CHOOSE n \in FreeObjs(kind, type) : TRUE

\* A thread inside a call: the statement it is at, the locks it holds, the
\* name_seq it has a pointer to, whether it is between rcu_read_lock and
\* rcu_read_unlock, the unlinked objects it has still to hand to kfree_rcu, and
\* the readers synchronize_net waits for.
LockCall(call, at, a, inside) ==
    [call |-> call, at |-> at, a |-> a, held |-> <<>>, ref |-> NoObj,
     inside |-> inside, pend |-> {}, wait |-> {}]

LockWriters == {"publish", "withdraw", "subscribe", "unsubscribe", "stop"}
LockReaders == {"translate", "lookup", "mc_lookup", "dump"}

\* The threads inside a read-side section.
InsideRcu == {u \in Threads : pc[u] # Idle /\ pc[u].inside}

\* No thread holds the lock of name_seq obj.
seq_lock_free(obj) == \A u \in Threads : pc[u] # Idle => ~list_member(obj, pc[u].held)

\* The name_seq obj is on its hash chain.
OnChain(obj) == nametbl_find_seq(seq_hlist, obj[2]) # 0 /\ obj = SeqObj(obj[2])

\* Line 1017, hlist_for_each_entry_from_rcu: the name_seq after obj on the
\* chain; hlist_del_init_rcu leaves the next pointer of an unlinked one as it
\* was.
NextOnChain(obj) ==
    IF OnChain(obj)
    THEN LET pos == nametbl_find_seq(seq_hlist, obj[2])
             chain == seq_hlist[hash(obj[2])]
         IN  IF pos < Len(chain) THEN SeqObj(chain[pos + 1].type) ELSE NoObj
    ELSE LET e == CHOOSE e \in rcu : e.obj = obj IN e.next

\* An object unlinked now: before are the readers that were inside their
\* section at the unlink, stale says that its sseqs array is freed with
\* sub-sequences counted in first_free.
Unlinked(obj, next, stale) ==
    [obj |-> obj, before |-> InsideRcu, next |-> next, stale |-> stale,
     state |-> "unlinked", wait |-> {}]

\* The grace period of an object handed to kfree_rcu is over when nobody is
\* waited for any more, and the object is freed then: what is left of a set.
GracePeriod(set) == {e \in set : e.state # "queued" \/ e.wait # {}}

\* Lines 479, 747, 812, 857 and 863: kfree_rcu of the objects in objs.
Queue(set, objs) ==
    GracePeriod({IF e.obj \in objs
                 THEN [e EXCEPT !.state = "queued", !.wait = kfree_rcu(InsideRcu)]
                 ELSE e : e \in set})

\* Lines 705-711, 738, 774, 802 and 877: spin_lock_bh(&tn->nametbl_lock), and
\* the limit test of a publish.  A publish and a withdraw take <<type, lower>>,
\* a subscribe and an unsubscribe <<type, s>>.
WriterLock(t, call, a) ==
    /\ ~oops /\ ~stopped /\ pc[t] = Idle
    /\ call \in {"publish", "subscribe"} => FreeObjs("seq", a[1]) # {}
    /\ call = "publish" => FreeObjs(PublKind(a[2]), a[1]) # {}
    /\ call = "subscribe" => ~subs[a[2]].linked
    /\ call = "unsubscribe" => subs[a[2]].linked /\ subs[a[2]].type = a[1]
    /\ lock_free(nametbl_lock)
    /\ nametbl_lock' = t
    /\ pc' = [pc EXCEPT ![t] =
                 [LockCall(call,
                           IF call = "stop" THEN "purge_next"
                           ELSE IF call = "publish"
                                   /\ local_publ_count >= TIPC_MAX_PUBLICATIONS
                           THEN "unlock" ELSE "find",
                           IF call = "publish"
                              /\ local_publ_count >= TIPC_MAX_PUBLICATIONS
                           THEN <<>> ELSE a, FALSE)
                  EXCEPT !.held = <<DirLock>>]]
    /\ UNCHANGED <<seq_hlist, subs, oops, local_publ_count, other>>

\* Lines 442-456, 467-473, 775-779 and 803-805: nametbl_find_seq, then
\* tipc_nameseq_create for a publish or subscribe that found none, or
\* spin_lock_bh(&seq->lock) on the one found.
WriterFind(t) ==
    /\ ~oops /\ pc[t] # Idle /\ pc[t].call \in LockWriters /\ pc[t].at = "find"
    /\ LET type == pc[t].a[1]
           pos == nametbl_find_seq(seq_hlist, type)
       IN  IF pos = 0 /\ pc[t].call \in {"withdraw", "unsubscribe"}
           THEN /\ pc' = [pc EXCEPT ![t].at = "unlock", ![t].a = <<>>]
                /\ UNCHANGED <<seq_hlist, gen>>
           ELSE IF pos = 0
           THEN /\ seq_hlist' = [seq_hlist EXCEPT ![hash(type)] =
                                    list_add(tipc_nameseq_create(type, NoFail), @)]
                /\ gen' = [gen EXCEPT ![<<"seq", type>>] = NewObj("seq", type)]
                /\ UNCHANGED pc
           ELSE /\ seq_lock_free(SeqObj(type))
                /\ pc' = [pc EXCEPT ![t].at = "body",
                                    ![t].held = Append(@, SeqObj(type))]
                /\ UNCHANGED <<seq_hlist, gen>>
    /\ UNCHANGED <<subs, oops, local_publ_count, nametbl_lock, stopped, cb, seq_lock,
                   ncalls, log, rcu, sso>>

\* What the body of a writer makes of the table: the table, the count, the
\* subscriptions, whether a publication was added or removed, and whether the
\* call ran into undefined behaviour.
WriterResult(t) ==
    LET a == pc[t].a
        type == a[1]
        pos == nametbl_find_seq(seq_hlist, type)
    IN  IF pc[t].call = "publish"
        THEN LET r == insert_publ_at(seq_hlist, pos, type, a[2], a[2], TIPC_NODE_SCOPE,
                                     OwnAddr, 1, 1, NoFail)
             IN  [hlist |-> r.hlist, subs |-> subs, added |-> r.publ # NULL,
                  removed |-> FALSE, ub |-> FALSE,
                  count |-> IF r.publ # NULL
                            THEN (local_publ_count + 1) % CountMod
                            ELSE local_publ_count]
        ELSE IF pc[t].call = "withdraw"
        THEN LET r == tipc_nametbl_remove_publ(seq_hlist, type, a[2], OwnAddr, 1, 1)
             IN  [hlist |-> r.hlist, subs |-> subs, added |-> FALSE,
                  removed |-> r.publ # NULL, ub |-> r.ub,
                  count |-> IF r.publ # NULL
                            THEN (local_publ_count + CountMod - 1) % CountMod
                            ELSE local_publ_count]
        ELSE IF pc[t].call = "subscribe"
        THEN LET sub == [type |-> type, lower |-> 1, upper |-> 2, no_status |-> FALSE,
                         linked |-> TRUE]
                 r == subscribe_at(seq_hlist, pos, a[2], sub, NoFail)
             IN  [hlist |-> r.hlist, subs |-> [subs EXCEPT ![a[2]] = sub],
                  added |-> FALSE, removed |-> FALSE, ub |-> FALSE,
                  count |-> local_publ_count]
        ELSE LET r == tipc_nametbl_unsubscribe(seq_hlist, a[2], subs[a[2]])
             IN  [hlist |-> r.hlist, subs |-> [subs EXCEPT ![a[2]] = NoSub],
                  added |-> FALSE, removed |-> FALSE, ub |-> FALSE,
                  count |-> local_publ_count]

\* Lines 457-459, 474-483, 780-781 and 806-814: the sequence changed under its
\* lock, unlinked when it is left with no sub-sequence and no subscription, and
\* the lock dropped.
WriterBody(t) ==
    /\ ~oops /\ pc[t] # Idle /\ pc[t].call \in LockWriters /\ pc[t].at = "body"
    /\ \E r \in {WriterResult(t)} :
       LET type == pc[t].a[1]
           obj == SeqObj(type)
           gone == nametbl_find_seq(r.hlist, type) = 0
           kind == PublKind(pc[t].a[2])
           publ == IF r.removed THEN {PublObj(type, pc[t].a[2])} ELSE {}
           seq == IF gone THEN {obj} ELSE {}
       IN  /\ r.added => NumPubl(seq_hlist) < MaxPubl
           /\ \E fault \in IF r.ub THEN BOOLEAN ELSE {FALSE} : oops' = fault
           /\ seq_hlist' = r.hlist
           /\ subs' = r.subs
           /\ local_publ_count' = r.count
           /\ gen' = [gen EXCEPT ![<<kind, type>>] =
                                 IF r.added THEN NewObj(kind, type)
                                 ELSE IF r.removed THEN 0 ELSE @,
                             ![<<"seq", type>>] = IF gone THEN 0 ELSE @]
           /\ rcu' = rcu \cup {Unlinked(o, NoObj, FALSE) : o \in publ}
                         \cup {Unlinked(o, NextOnChain(o), FALSE) : o \in seq}
           /\ pc' = [pc EXCEPT ![t].at = IF publ \cup seq = {} THEN "unlock" ELSE "reclaim",
                               ![t].a = <<>>,
                               ![t].pend = publ \cup seq,
                               ![t].held = spin_unlock_bh(@, obj)]
    /\ UNCHANGED <<nametbl_lock, stopped, cb, seq_lock, ncalls, log, sso>>

\* Lines 479, 747, 812 and 863: kfree_rcu of what the call unlinked.
WriterReclaim(t) ==
    /\ ~oops /\ pc[t] # Idle /\ pc[t].call \in LockWriters /\ pc[t].at = "reclaim"
    /\ rcu' = Queue(rcu, pc[t].pend)
    /\ pc' = [pc EXCEPT ![t].pend = {},
                        ![t].at = IF pc[t].call = "stop" THEN "purge_next" ELSE "unlock"]
    /\ UNCHANGED <<seq_hlist, subs, oops, local_publ_count, nametbl_lock, stopped, cb,
                   seq_lock, ncalls, log, gen, sso>>

\* Lines 721, 753, 789, 817 and 886: spin_unlock_bh(&tn->nametbl_lock); stop
\* goes on to synchronize_net.
WriterUnlock(t) ==
    /\ ~oops /\ pc[t] # Idle /\ pc[t].call \in LockWriters /\ pc[t].at = "unlock"
    /\ nametbl_lock' = IF nametbl_lock = t THEN 0 ELSE nametbl_lock
    /\ pc' = [pc EXCEPT ![t] =
                 IF pc[t].call = "stop"
                 THEN [pc[t] EXCEPT !.at = "synchronize", !.wait = InsideRcu,
                                    !.held = spin_unlock_bh(@, DirLock)]
                 ELSE Idle]
    /\ UNCHANGED <<seq_hlist, subs, oops, local_publ_count, other>>

\* Lines 878-885 and 851: the next name_seq of the table, and
\* spin_lock_bh(&seq->lock) on it.
StopNext(t) ==
    /\ ~oops /\ pc[t] # Idle /\ pc[t].at = "purge_next"
    /\ IF \A b \in Buckets : seq_hlist[b] = <<>>
       THEN pc' = [pc EXCEPT ![t].at = "unlock"]
       ELSE LET b == CHOOSE b \in Buckets : seq_hlist[b] # <<>>
                obj == SeqObj(seq_hlist[b][1].type)
            IN  /\ seq_lock_free(obj)
                /\ pc' = [pc EXCEPT ![t].at = "purge", ![t].ref = obj,
                                    ![t].held = Append(@, obj)]
    /\ UNCHANGED <<seq_hlist, subs, oops, local_publ_count, nametbl_lock, other>>

\* Lines 852-861: the publications of the first sub-sequence handed to
\* kfree_rcu, the name_seq unlinked, its sseqs array freed and its lock dropped.
StopPurge(t) ==
    /\ ~oops /\ pc[t] # Idle /\ pc[t].at = "purge"
    /\ \E r \in {tipc_purge_publications(
                    seq_hlist[hash(pc[t].ref[2])][nametbl_find_seq(seq_hlist,
                                                                   pc[t].ref[2])])} :
       LET obj == pc[t].ref
           type == obj[2]
           pos == nametbl_find_seq(seq_hlist, type)
           publ == {PublObj(type, r.freed[i].lower) : i \in DOMAIN r.freed}
       IN  /\ \E fault \in IF r.ub THEN BOOLEAN ELSE {FALSE} : oops' = fault
           /\ seq_hlist' = hlist_del(seq_hlist, hash(type), pos)
           /\ rcu' = Queue(rcu \cup {Unlinked(o, NoObj, FALSE) : o \in publ}, publ)
                         \cup {Unlinked(obj, NextOnChain(obj), first_free(r.nseq) # 0)}
           /\ gen' = [k \in DOMAIN gen |->
                          IF k[2] = type /\ (k[1] = "seq" \/ <<k[1], k[2], gen[k]>> \in publ)
                          THEN 0 ELSE gen[k]]
           /\ pc' = [pc EXCEPT ![t].at = "reclaim", ![t].pend = {obj}, ![t].ref = NoObj,
                               ![t].held = spin_unlock_bh(@, obj)]
    /\ UNCHANGED <<subs, local_publ_count, nametbl_lock, stopped, cb, seq_lock, ncalls,
                   log, sso>>

\* Lines 888-889: synchronize_net returns when the readers it found inside
\* their section have left, and the table is freed.
StopSync(t) ==
    /\ ~oops /\ pc[t] # Idle /\ pc[t].at = "synchronize"
    /\ pc[t].wait = {}
    /\ stopped' = TRUE
    /\ pc' = [pc EXCEPT ![t] = Idle]
    /\ UNCHANGED <<seq_hlist, subs, oops, local_publ_count, nametbl_lock, cb, seq_lock,
                   ncalls, log, gen, rcu, sso>>

\* Lines 513, 574, 610 and 1052: rcu_read_lock.  A reader takes <<type>>, the
\* dump nothing.
ReaderEnter(t, call, a) ==
    /\ ~oops /\ ~stopped /\ pc[t] = Idle
    /\ pc' = [pc EXCEPT ![t] = LockCall(call, "find", a, TRUE)]
    /\ UNCHANGED <<seq_hlist, subs, oops, local_publ_count, nametbl_lock, other>>

\* Lines 514-516, 575-577, 611-613 and 1003-1017: nametbl_find_seq, and for the
\* dump the first name_seq of the chain.
ReaderFind(t) ==
    /\ ~oops /\ pc[t] # Idle /\ pc[t].call \in LockReaders /\ pc[t].at = "find"
    /\ LET chain == seq_hlist[CHOOSE b \in Buckets : TRUE]
           obj == IF pc[t].call = "dump"
                  THEN IF chain = <<>> THEN NoObj ELSE SeqObj(chain[1].type)
                  ELSE IF nametbl_find_seq(seq_hlist, pc[t].a[1]) = 0 THEN NoObj
                  ELSE SeqObj(pc[t].a[1])
       IN  pc' = [pc EXCEPT ![t].ref = obj, ![t].a = <<>>,
                            ![t].at = IF obj = NoObj THEN "rcu_unlock" ELSE "lock"]
    /\ UNCHANGED <<seq_hlist, subs, oops, local_publ_count, nametbl_lock, other>>

\* Lines 517, 578, 615 and 1019: spin_lock_bh(&seq->lock).
ReaderLock(t) ==
    /\ ~oops /\ pc[t] # Idle /\ pc[t].call \in LockReaders /\ pc[t].at = "lock"
    /\ seq_lock_free(pc[t].ref)
    /\ pc' = [pc EXCEPT ![t].at = "body", ![t].held = Append(@, pc[t].ref)]
    /\ UNCHANGED <<seq_hlist, subs, oops, local_publ_count, nametbl_lock, other>>

\* The table after the body of a reader that holds the lock of a linked
\* name_seq.
ReaderResult(t) ==
    LET type == pc[t].ref[2]
    IN  IF pc[t].call = "translate"
        THEN tipc_nametbl_translate(seq_hlist, type, 1, 0).hlist
        ELSE IF pc[t].call = "lookup"
        THEN tipc_nametbl_lookup(seq_hlist, type, 1, TIPC_NODE_SCOPE, <<>>, 0, FALSE).hlist
        ELSE seq_hlist

\* Lines 518-556, 579-595, 616-627 and 1020-1028: the sequence read under its
\* lock and spin_unlock_bh(&seq->lock); more says whether the dump goes on to
\* the next name_seq or ends its pass here.  A name_seq unlinked by the purge
\* has its sseqs array freed and its first_free as it was.
ReaderBody(t, more) ==
    /\ ~oops /\ pc[t] # Idle /\ pc[t].call \in LockReaders /\ pc[t].at = "body"
    /\ more => pc[t].call = "dump"
    /\ IF OnChain(pc[t].ref)
       THEN /\ seq_hlist' = ReaderResult(t)
            /\ UNCHANGED oops
       ELSE /\ \E fault \in IF \E e \in rcu : e.obj = pc[t].ref /\ e.stale
                            THEN BOOLEAN ELSE {FALSE} : oops' = fault
            /\ UNCHANGED seq_hlist
    /\ LET next == IF more THEN NextOnChain(pc[t].ref) ELSE NoObj
       IN  pc' = [pc EXCEPT ![t].held = spin_unlock_bh(@, pc[t].ref),
                            ![t].ref = next,
                            ![t].at = IF next = NoObj THEN "rcu_unlock" ELSE "lock"]
    /\ UNCHANGED <<subs, local_publ_count, nametbl_lock, other>>

\* Lines 558, 597, 629 and 1065: rcu_read_unlock.
ReaderLeave(t) ==
    /\ ~oops /\ pc[t] # Idle /\ pc[t].call \in LockReaders /\ pc[t].at = "rcu_unlock"
    /\ pc' = [u \in Threads |->
                 IF u = t THEN Idle
                 ELSE IF pc[u] = Idle THEN Idle
                 ELSE [pc[u] EXCEPT !.wait = @ \ {t}]]
    /\ rcu' = GracePeriod({[e EXCEPT !.before = @ \ {t}, !.wait = @ \ {t}] : e \in rcu})
    /\ UNCHANGED <<seq_hlist, subs, oops, local_publ_count, nametbl_lock, stopped, cb,
                   seq_lock, ncalls, log, gen, sso>>

NextRcu ==
    \E t \in Threads :
        \/ \E type \in LockTypes :
              \/ WriterLock(t, "publish", <<type, 1>>)
              \/ WriterLock(t, "withdraw", <<type, 1>>)
              \/ WriterLock(t, "subscribe", <<type, 1>>)
              \/ WriterLock(t, "unsubscribe", <<type, 1>>)
              \/ \E call \in LockReaders \ {"dump"} : ReaderEnter(t, call, <<type>>)
        \/ WriterLock(t, "stop", <<>>)
        \/ ReaderEnter(t, "dump", <<>>)
        \/ WriterFind(t)
        \/ WriterBody(t)
        \/ WriterReclaim(t)
        \/ WriterUnlock(t)
        \/ StopNext(t)
        \/ StopPurge(t)
        \/ StopSync(t)
        \/ ReaderFind(t)
        \/ ReaderLock(t)
        \/ \E more \in BOOLEAN : ReaderBody(t, more)
        \/ ReaderLeave(t)

SpecRcu == Init /\ [][NextRcu]_vars

\* The calls on one type with publications of two instances: the name_seq has
\* up to two sub-sequences when it is withdrawn from, read or purged.
NextPurge ==
    \E t \in Threads :
        \/ \E type \in Types :
              \/ \E lower \in {1, 2} : WriterLock(t, "publish", <<type, lower>>)
              \/ \E lower \in {1, 2} : WriterLock(t, "withdraw", <<type, lower>>)
              \/ WriterLock(t, "subscribe", <<type, 1>>)
              \/ WriterLock(t, "unsubscribe", <<type, 1>>)
              \/ \E call \in LockReaders \ {"dump"} : ReaderEnter(t, call, <<type>>)
        \/ WriterLock(t, "stop", <<>>)
        \/ ReaderEnter(t, "dump", <<>>)
        \/ WriterFind(t)
        \/ WriterBody(t)
        \/ WriterReclaim(t)
        \/ WriterUnlock(t)
        \/ StopNext(t)
        \/ StopPurge(t)
        \/ StopSync(t)
        \/ ReaderFind(t)
        \/ ReaderLock(t)
        \/ \E more \in BOOLEAN : ReaderBody(t, more)
        \/ ReaderLeave(t)

SpecPurge == Init /\ [][NextPurge]_vars


\* The sub-sequences a sequence may hold and the largest instance published in
\* the specification of the binary search.
FindMaxLen == 4
FindMaxInst == 6

\* tipc_nametbl_insert_publ of a range of this node's port 1.
FindInsert(type, lower, upper) ==
    LET r == tipc_nametbl_insert_publ(seq_hlist, type, lower, upper, TIPC_NODE_SCOPE,
                                      OwnAddr, 1, 1, NoFail)
    IN  /\ ~oops
        /\ r.publ # NULL => NumPubl(seq_hlist) < FindMaxLen
        /\ seq_hlist' = r.hlist
        /\ UNCHANGED <<subs, oops, rest>>

NextFind ==
    \/ \E type \in Types, lower \in 0 .. FindMaxInst, upper \in 0 .. FindMaxInst :
          lower <= upper /\ FindInsert(type, lower, upper)
    \/ \E type \in Types, lower \in 0 .. FindMaxInst :
          RemovePubl(type, lower, OwnAddr, 1, 1)
    \/ \E type \in Types, instance \in 0 .. FindMaxInst + 1 :
          Translate(type, instance, 0)

SpecFind == Init /\ [][NextFind]_vars

\* The mailbox requests of the functions to the SSO.
SsoLfAlloc(pcifunc, hwgrps) ==
    /\ sso' = rvu_mbox_handler_SSO_LF_ALLOC(sso, pcifunc, hwgrps).sso
    /\ UNCHANGED <<seq_hlist, subs, oops, local_publ_count, nametbl_lock, pc, stopped,
                   cb, seq_lock, ncalls, log, gen, rcu>>

SsoLfFree(pcifunc, hwgrps, fail) ==
    /\ sso' = rvu_mbox_handler_SSO_LF_FREE(sso, pcifunc, hwgrps, fail).sso
    /\ UNCHANGED <<seq_hlist, subs, oops, local_publ_count, nametbl_lock, pc, stopped,
                   cb, seq_lock, ncalls, log, gen, rcu>>

NextSso ==
    \/ \E pcifunc \in SsoFuncs, hwgrps \in 0 .. SsoGroups : SsoLfAlloc(pcifunc, hwgrps)
    \/ \E pcifunc \in SsoFuncs, hwgrps \in 0 .. SsoGroups + 1, fail \in 0 .. SsoGroups :
          SsoLfFree(pcifunc, hwgrps, fail)

SpecSso == Init /\ [][NextSso]_vars

----------------------------------------------------------------------------
(* Vocabulary of the properties, independent of the operators above *)

\* The live sub-sequences of a type, <<>> when the type has no name sequence.
Sseqs(hlist, type) ==
    LET chain == hlist[hash(type)]
        hits == {i \in 1 .. Len(chain) : chain[i].type = type}
    IN  IF hits = {} THEN <<>> ELSE chain[CHOOSE i \in hits : TRUE].sseqs

\* The subscriptions attached to a type, <<>> when it has no name sequence.
Subscriptions(hlist, type) ==
    LET chain == hlist[hash(type)]
        hits == {i \in 1 .. Len(chain) : chain[i].type = type}
    IN  IF hits = {} THEN <<>> ELSE chain[CHOOSE i \in hits : TRUE].subscriptions

\* The positions (from 1) of the sub-sequences whose range holds the instance.
Holding(sseqs, instance) ==
    {i \in 1 .. Len(sseqs) : sseqs[i].lower <= instance /\ instance <= sseqs[i].upper}

\* The ranges [l1, u1] and [l2, u2] share an instance.
Intersect(l1, u1, l2, u2) == \E x \in Instances : l1 <= x /\ x <= u1 /\ l2 <= x /\ x <= u2

Range(f) == {f[i] : i \in DOMAIN f}

\* <<type, lower, upper, scope, node, port, key>> with a legal scope and range.
PublishArgs ==
    {a \in Types \X Instances \X Instances \X Scopes \X Nodes \X Ports \X Keys :
        a[2] <= a[3] /\ a[4] <= TIPC_NODE_SCOPE}

Publish(hlist, a) ==
    tipc_nametbl_insert_publ(hlist, a[1], a[2], a[3], a[4], a[5], a[6], a[7], NoFail)

----------------------------------------------------------------------------
(* C1 *)

\* The translate calls with destnode 0 for the instances of a publish that
\* succeeded all return the port and the node just published.
TranslateReturnsNew(r, a) ==
    \A instance \in a[2] .. a[3] :
        LET t == tipc_nametbl_translate(r.hlist, a[1], instance, 0)
        IN  t.port = a[6] /\ t.destnode = a[5]

\* The binding set the publication of a successful publish went into.
InfoOf(r, a) ==
    LET sseqs == Sseqs(r.hlist, a[1])
    IN  sseqs[CHOOSE i \in Holding(sseqs, a[2]) : TRUE].info

\* C1 as claimed: in every reachable table, a successful publish followed at once
\* by translate(type, instance, 0), instance in [lower, upper], returns the port
\* and node of the new publication.
C1_TranslateAfterPublish ==
    \A a \in PublishArgs :
        LET r == Publish(seq_hlist, a)
        IN  r.publ # NULL => TranslateReturnsNew(r, a)

\* C1 amended: the same, for a publication that went on the local list or into
\* a sub-sequence whose local list is empty.
C1_TranslateAfterPublishClosest ==
    \A a \in PublishArgs :
        LET r == Publish(seq_hlist, a)
        IN  (/\ r.publ # NULL
             /\ \/ list_member(r.publ, InfoOf(r, a).local_publ)
                \/ InfoOf(r, a).local_publ = <<>>)
            => TranslateReturnsNew(r, a)

\* A local publish joins a sub-sequence that holds a publication already, and
\* translate returns the new one.
C1_Witness ==
    \E a \in PublishArgs :
        LET r == Publish(seq_hlist, a)
        IN  /\ r.tag = "existing_subseq"
            /\ list_member(r.publ, InfoOf(r, a).local_publ)
            /\ Len(InfoOf(r, a).all_publ) >= 2
            /\ TranslateReturnsNew(r, a)

----------------------------------------------------------------------------
(* C2 *)

\* C2: in every reachable state the live sub-sequences of every name sequence
\* are in strictly ascending order of lower and pairwise disjoint: each upper is
\* below the next lower.
C2_SortedDisjoint ==
    \A b \in Buckets :
        \A n \in 1 .. Len(seq_hlist[b]) :
            LET sseqs == seq_hlist[b][n].sseqs
            IN  \A i \in 1 .. Len(sseqs) - 1 :
                    /\ sseqs[i].lower < sseqs[i + 1].lower
                    /\ sseqs[i].upper < sseqs[i + 1].lower

\* A sequence holds two sub-sequences with adjacent ranges, kept apart.
C2_Witness ==
    \E b \in Buckets :
        \E n \in 1 .. Len(seq_hlist[b]) :
            LET sseqs == seq_hlist[b][n].sseqs
            IN  /\ Len(sseqs) >= 2
                /\ sseqs[1].upper + 1 = sseqs[2].lower

----------------------------------------------------------------------------
(* C3 *)

\* <<type, lower, upper, scope, node, port, key>>, legal or not.
AnyPublishArgs ==
    Types \X Instances \X Instances \X (Scopes \cup {TIPC_NODE_SCOPE + 1})
          \X Nodes \X Ports \X Keys

\* The range of a shares an instance with a sub-sequence of its type and is not
\* that sub-sequence's range.
PartialOverlap(hlist, a) ==
    LET sseqs == Sseqs(hlist, a[1])
    IN  \E i \in 1 .. Len(sseqs) :
            /\ Intersect(a[2], a[3], sseqs[i].lower, sseqs[i].upper)
            /\ ~(a[2] = sseqs[i].lower /\ a[3] = sseqs[i].upper)

\* C3: a publish whose range partially overlaps an existing sub-sequence of its
\* type returns no publication, changes no sub-sequence array and no binding
\* set, and reports nothing to a subscription.
C3_PartialOverlapRejected ==
    \A a \in AnyPublishArgs :
        PartialOverlap(seq_hlist, a) =>
            LET r == Publish(seq_hlist, a)
            IN  /\ r.publ = NULL
                /\ r.hlist = seq_hlist
                /\ r.events = <<>>

\* A subscribed type refuses a range that runs into a later sub-sequence, and one
\* that starts inside a sub-sequence.
C3_Witness ==
    /\ \E a \in PublishArgs :
          /\ PartialOverlap(seq_hlist, a)
          /\ Subscriptions(seq_hlist, a[1]) # <<>>
          /\ Publish(seq_hlist, a).tag = "upper_overlap"
    /\ \E a \in PublishArgs :
          /\ PartialOverlap(seq_hlist, a)
          /\ Publish(seq_hlist, a).tag = "lower_overlap"

----------------------------------------------------------------------------
(* C4 *)

\* C4: a publish of exactly the range of an existing sub-sequence is refused, the
\* table unchanged and nothing reported, when a publication of that sub-sequence
\* has its port and key and a node equal to its node or 0; when no publication
\* there has its port and key it succeeds, creates no sub-sequence, and the all
\* list holds the old publications and the new one.
C4_ExactRange ==
    \A a \in PublishArgs :
        LET sseqs == Sseqs(seq_hlist, a[1])
            r == Publish(seq_hlist, a)
            after == Sseqs(r.hlist, a[1])
        IN  \A i \in 1 .. Len(sseqs) :
                (sseqs[i].lower = a[2] /\ sseqs[i].upper = a[3]) =>
                    LET all == sseqs[i].info.all_publ
                    IN  /\ (\E k \in 1 .. Len(all) :
                               /\ all[k].port = a[6]
                               /\ all[k].key = a[7]
                               /\ (all[k].node = a[5] \/ all[k].node = 0))
                           => /\ r.publ = NULL
                              /\ r.hlist = seq_hlist
                              /\ r.events = <<>>
                        /\ (\A k \in 1 .. Len(all) :
                               ~(all[k].port = a[6] /\ all[k].key = a[7]))
                           => /\ r.publ = publ_create(a[1], a[2], a[3], a[4], a[5],
                                                      a[6], a[7])
                              /\ Len(after) = Len(sseqs)
                              /\ after[i].lower = a[2] /\ after[i].upper = a[3]
                              /\ Len(after[i].info.all_publ) = Len(all) + 1
                              /\ Range(after[i].info.all_publ) = Range(all) \cup {r.publ}

\* One sub-sequence holds a publication of node 0: a publish of its port and key
\* by another node is refused as a duplicate, one of another port joins it.
C4_Witness ==
    /\ \E a \in PublishArgs :
          /\ a[5] # 0
          /\ Publish(seq_hlist, a).tag = "duplicate"
          /\ \A i \in Holding(Sseqs(seq_hlist, a[1]), a[2]) :
                \A k \in 1 .. Len(Sseqs(seq_hlist, a[1])[i].info.all_publ) :
                    Sseqs(seq_hlist, a[1])[i].info.all_publ[k].node = 0
    /\ \E a \in PublishArgs : Publish(seq_hlist, a).tag = "existing_subseq"

----------------------------------------------------------------------------
(* C5 *)

\* <<type, lower, node, port, key>>
WithdrawArgs == Types \X Instances \X Nodes \X Ports \X Keys

Withdraw(hlist, w) == tipc_nametbl_remove_publ(hlist, w[1], w[2], w[3], w[4], w[5])

\* The publication is one the withdraw request w names: its key and port, and
\* its node or the wildcard node 0.
Named(publ, w) ==
    publ.key = w[5] /\ publ.port = w[4] /\ (publ.node = 0 \/ publ.node = w[3])

\* No sub-sequence of the type holds lower, or the one that does has no
\* publication the request names.
NothingToWithdraw(hlist, w) ==
    LET sseqs == Sseqs(hlist, w[1])
    IN  \A i \in Holding(sseqs, w[2]) :
            \A k \in 1 .. Len(sseqs[i].info.all_publ) :
                ~Named(sseqs[i].info.all_publ[k], w)

\* C5: a withdraw that finds no sequence, no sub-sequence holding lower or no
\* publication it names returns no publication, reports nothing, and leaves
\* every sub-sequence, binding set and list order of the table as it was.
C5_FailedWithdraw ==
    \A w \in WithdrawArgs :
        NothingToWithdraw(seq_hlist, w) =>
            LET r == Withdraw(seq_hlist, w)
            IN  /\ r.publ = NULL
                /\ r.events = <<>>
                /\ \A t \in Types : Sseqs(r.hlist, t) = Sseqs(seq_hlist, t)

\* A withdraw reaches a sub-sequence with two publications and names neither.
C5_Witness ==
    \E w \in WithdrawArgs :
        /\ NothingToWithdraw(seq_hlist, w)
        /\ Withdraw(seq_hlist, w).tag = "no_publ"
        /\ \E i \in Holding(Sseqs(seq_hlist, w[1]), w[2]) :
              Len(Sseqs(seq_hlist, w[1])[i].info.all_publ) >= 2

----------------------------------------------------------------------------
(* C6 *)

\* The publications n consecutive lookups (all = false, each with an empty
\* destination list) select, in order.
RECURSIVE LookupRun(_, _, _, _, _, _)
LookupRun(hlist, type, instance, scope, exclude, n) ==
    IF n = 0
    THEN <<>>
    ELSE LET r == tipc_nametbl_lookup(hlist, type, instance, scope, <<>>, exclude,
                                      FALSE)
         IN  <<r.publ>> \o LookupRun(r.hlist, type, instance, scope, exclude, n - 1)

\* Every publication of the list has the scope and none is <<OwnAddr, exclude>>.
AllEligible(all, scope, exclude) ==
    \A k \in 1 .. Len(all) :
        /\ all[k].scope = scope
        /\ ~(all[k].port = exclude /\ all[k].node = OwnAddr)

\* C6: when the N publications of the sub-sequence holding the instance all have
\* the requested scope and none is (own node, exclude), N consecutive lookups
\* with all = false select each of them once and the next selects the first again.
C6_RoundRobin ==
    \A type \in Types, instance \in Instances, scope \in LookupScopes,
       exclude \in Ports \cup {0} :
        LET sseqs == Sseqs(seq_hlist, type)
        IN  \A i \in Holding(sseqs, instance) :
                LET all == sseqs[i].info.all_publ
                    N == Len(all)
                    run == LookupRun(seq_hlist, type, instance, scope, exclude, N + 1)
                IN  AllEligible(all, scope, exclude) =>
                        /\ Range(SubSeq(run, 1, N)) = Range(all)
                        /\ run[N + 1] = run[1]

\* Two eligible publications under one range: the first two lookups select
\* different ones and the third selects the first again.
C6_Witness ==
    \E type \in Types, instance \in Instances :
        LET sseqs == Sseqs(seq_hlist, type)
            run == LookupRun(seq_hlist, type, instance, TIPC_NODE_SCOPE, 0, 3)
        IN  \E i \in Holding(sseqs, instance) :
                /\ Len(sseqs[i].info.all_publ) = 2
                /\ AllEligible(sseqs[i].info.all_publ, TIPC_NODE_SCOPE, 0)
                /\ run[1] # run[2]
                /\ run[3] = run[1]

----------------------------------------------------------------------------
(* C7 *)

\* C7: whenever the sub-sequence holding the instance has a publication on its
\* local list, translate with destnode 0 returns the port and node of a
\* publication of that local list, and the node is the own node.
C7_ClosestFirst ==
    \A type \in Types, instance \in Instances :
        LET sseqs == Sseqs(seq_hlist, type)
            t == tipc_nametbl_translate(seq_hlist, type, instance, 0)
        IN  \A i \in Holding(sseqs, instance) :
                LET local == sseqs[i].info.local_publ
                IN  local # <<>> =>
                        /\ \E k \in 1 .. Len(local) :
                              local[k].port = t.port /\ local[k].node = t.destnode
                        /\ t.destnode = OwnAddr

\* A sub-sequence holds a local publication behind a remote one at the head of
\* its all list.
C7_Witness ==
    \E type \in Types, instance \in Instances :
        LET sseqs == Sseqs(seq_hlist, type)
        IN  \E i \in Holding(sseqs, instance) :
                /\ sseqs[i].info.local_publ # <<>>
                /\ Head(sseqs[i].info.all_publ).node = RemoteAddr
                /\ tipc_nametbl_translate(seq_hlist, type, instance, 0).destnode
                      = OwnAddr

----------------------------------------------------------------------------
(* C8 *)

\* The withdraw w takes the only publication of the sub-sequence at position i.
TakesLast(hlist, w, i) ==
    LET sseqs == Sseqs(hlist, w[1])
    IN  /\ i \in Holding(sseqs, w[2])
        /\ Len(sseqs[i].info.all_publ) = 1
        /\ Named(sseqs[i].info.all_publ[1], w)

\* C8: after a withdraw took the last publication of a sub-sequence,
\* nameseq_find_subseq finds nothing for every instance of its range, the
\* sequence has one live sub-sequence less, and the others are as they were,
\* in the same order.
C8_RangeDeletion ==
    \A w \in WithdrawArgs :
        LET before == Sseqs(seq_hlist, w[1])
            r == Withdraw(seq_hlist, w)
            after == Sseqs(r.hlist, w[1])
        IN  \A i \in 1 .. Len(before) :
                TakesLast(seq_hlist, w, i) =>
                    /\ r.publ = before[i].info.all_publ[1]
                    /\ Len(after) = Len(before) - 1
                    /\ after = [j \in 1 .. Len(before) - 1 |->
                                   IF j < i THEN before[j] ELSE before[j + 1]]
                    /\ \A x \in before[i].lower .. before[i].upper :
                          nameseq_find_subseq([sseqs |-> after], x) = NOT_FOUND

\* A withdraw takes the last publication of the first of two sub-sequences.
C8_Witness ==
    \E w \in WithdrawArgs :
        /\ TakesLast(seq_hlist, w, 1)
        /\ Len(Sseqs(seq_hlist, w[1])) = 2
        /\ Withdraw(seq_hlist, w).tag = "removed_subseq"

----------------------------------------------------------------------------
(* C9 *)

\* The events of ev that carry the range of the sub-sequence.
EventsOf(ev, sseq) ==
    SelectSeq(ev, LAMBDA e : e.lower = sseq.lower /\ e.upper = sseq.upper)

Triple(x) == <<x.port, x.node, x.scope>>

\* C9: a subscribe without the no-status filter reports to the new subscription
\* one PUBLISHED event for each publication of the all list of each sub-sequence
\* that overlaps its range and none for the others, the first event of a
\* sub-sequence with must_report set and the later ones without; with the
\* filter it reports nothing.
C9_Snapshot ==
    \A s \in SubIds, type \in Types, lower \in Instances, upper \in Instances,
       no_status \in BOOLEAN :
        LET sub == [type |-> type, lower |-> lower, upper |-> upper,
                    no_status |-> no_status, linked |-> TRUE]
            ev == tipc_nametbl_subscribe(seq_hlist, s, sub, NoFail).events
            sseqs == Sseqs(seq_hlist, type)
        IN  IF no_status
            THEN ev = <<>>
            ELSE /\ \A e \in 1 .. Len(ev) :
                       /\ ev[e].sub = s
                       /\ ev[e].event = "PUBLISHED"
                       /\ \E i \in 1 .. Len(sseqs) :
                             ev[e].lower = sseqs[i].lower /\ ev[e].upper = sseqs[i].upper
                 /\ \A i \in 1 .. Len(sseqs) :
                       LET mine == EventsOf(ev, sseqs[i])
                           all == sseqs[i].info.all_publ
                       IN  IF Intersect(lower, upper, sseqs[i].lower, sseqs[i].upper)
                           THEN /\ Len(mine) = Len(all)
                                /\ \A p \in Range(all) :
                                      Cardinality({k \in 1 .. Len(mine) :
                                                     Triple(mine[k]) = Triple(p)})
                                      = Cardinality({k \in 1 .. Len(all) :
                                                       Triple(all[k]) = Triple(p)})
                                /\ \A k \in 1 .. Len(mine) : mine[k].must = (k = 1)
                           ELSE mine = <<>>

\* A subscribe meets a sub-sequence with two publications: two events, the
\* first with must_report and the second without.
C9_Witness ==
    \E s \in SubIds, type \in Types, lower \in SubLowers, upper \in SubUppers :
        LET sub == [type |-> type, lower |-> lower, upper |-> upper,
                    no_status |-> FALSE, linked |-> TRUE]
            ev == tipc_nametbl_subscribe(seq_hlist, s, sub, NoFail).events
        IN  /\ Len(ev) = 2
            /\ ev[1].must /\ ~ev[2].must
            /\ Triple(ev[1]) # Triple(ev[2])

----------------------------------------------------------------------------
(* C10 *)

Translated(hlist, type, instance, destnode, port, node) ==
    LET t == tipc_nametbl_translate(hlist, type, instance, destnode)
    IN  t.port = port /\ t.destnode = node

\* A publish that creates a sub-sequence, undone by the withdraw of the same
\* tuple, leaves translate with (0, 0) for each instance and each of the dests.
UndonePublish(dests) ==
    \A a \in PublishArgs :
        LET r == Publish(seq_hlist, a)
            u == Withdraw(r.hlist, <<a[1], a[2], a[5], a[6], a[7]>>)
        IN  r.tag = "created_subseq" =>
                /\ u.publ = r.publ
                /\ \A instance \in a[2] .. a[3], destnode \in dests :
                      Translated(u.hlist, a[1], instance, destnode, 0, 0)

\* C10 as claimed: translate returns port 0 and destnode 0 for every destnode
\* when no sub-sequence of the type holds the instance, and after a publish of
\* one binding and the withdraw of the same tuple.
C10_NoBinding ==
    /\ \A type \in Types, instance \in Instances, destnode \in DestNodes :
          Holding(Sseqs(seq_hlist, type), instance) = {} =>
              Translated(seq_hlist, type, instance, destnode, 0, 0)
    /\ UndonePublish(DestNodes)

InScope == {d \in DestNodes : tipc_in_scope(d, OwnAddr)}

\* C10 amended: the same for every destnode in scope of the own address; for a
\* destnode out of scope translate returns 0 and leaves destnode as it is.
C10_NoBindingInScope ==
    /\ \A type \in Types, instance \in Instances, destnode \in DestNodes :
          Holding(Sseqs(seq_hlist, type), instance) = {} =>
              IF destnode \in InScope
              THEN Translated(seq_hlist, type, instance, destnode, 0, 0)
              ELSE Translated(seq_hlist, type, instance, destnode, 0, destnode)
    /\ UndonePublish(InScope)

\* The type has a sub-sequence, and translate finds none for another instance.
C10_Witness ==
    \E type \in Types, instance \in Instances :
        /\ Sseqs(seq_hlist, type) # <<>>
        /\ Holding(Sseqs(seq_hlist, type), instance) = {}
        /\ tipc_nametbl_translate(seq_hlist, type, instance, OwnAddr).tag = "no_match"

----------------------------------------------------------------------------
(* C11 *)

\* C11: translate with destnode equal to the own node address returns the port
\* and node of a publication of the local list of the sub-sequence holding the
\* instance and changes no all list; when that local list is empty it returns
\* port 0 and node 0 and leaves every list as it was, whatever the all list holds.
C11_OwnNodeLocalOnly ==
    \A type \in Types, instance \in Instances :
        LET sseqs == Sseqs(seq_hlist, type)
            t == tipc_nametbl_translate(seq_hlist, type, instance, OwnAddr)
            after == Sseqs(t.hlist, type)
        IN  \A i \in Holding(sseqs, instance) :
                LET local == sseqs[i].info.local_publ
                IN  IF local = <<>>
                    THEN t.port = 0 /\ t.destnode = 0 /\ t.hlist = seq_hlist
                    ELSE /\ t.port = Head(local).port
                         /\ t.destnode = Head(local).node
                         /\ list_member(Head(after[i].info.local_publ), local)
                         /\ after[i].info.all_publ = sseqs[i].info.all_publ

\* One sub-sequence has an empty local list under a non-empty all list and the
\* call finds no match there; another has a local publication, which it returns.
C11_Witness ==
    \E type \in Types, i1 \in Instances, i2 \in Instances :
        LET sseqs == Sseqs(seq_hlist, type)
        IN  /\ \E i \in Holding(sseqs, i1) :
                  /\ sseqs[i].info.local_publ = <<>>
                  /\ sseqs[i].info.all_publ # <<>>
            /\ tipc_nametbl_translate(seq_hlist, type, i1, OwnAddr).tag = "no_match"
            /\ \E i \in Holding(sseqs, i2) :
                  sseqs[i].info.local_publ # <<>>
            /\ tipc_nametbl_translate(seq_hlist, type, i2, OwnAddr).tag = "local_publ"

----------------------------------------------------------------------------
(* C12 *)

OutOfScope == {d \in DestNodes : ~tipc_in_scope(d, OwnAddr)}

\* C12: translate with a destnode that is not in scope of the own address returns
\* port 0, leaves destnode as it is (not 0), takes no sequence lock and leaves
\* the table, with the order of every list, as it was.
C12_DeferredUntouched ==
    \A type \in Types, instance \in Instances, destnode \in OutOfScope :
        LET t == tipc_nametbl_translate(seq_hlist, type, instance, destnode)
        IN  /\ t.port = 0
            /\ t.destnode = destnode
            /\ destnode # 0
            /\ ~t.locked
            /\ t.hlist = seq_hlist

\* The deferred translate names an instance that has a publication the call
\* would have selected and rotated had it not been deferred.
C12_Witness ==
    \E type \in Types, instance \in Instances, destnode \in OutOfScope :
        LET sseqs == Sseqs(seq_hlist, type)
        IN  /\ tipc_nametbl_translate(seq_hlist, type, instance, destnode).tag = "deferred"
            /\ \E i \in Holding(sseqs, instance) : Len(sseqs[i].info.all_publ) >= 2

----------------------------------------------------------------------------
(* C13 *)

\* <<type, lower, upper, scope, node, port, key>> with a scope above the largest
\* or with lower above upper.
IllegalPublishArgs ==
    {a \in AnyPublishArgs : a[4] > TIPC_NODE_SCOPE \/ a[2] > a[3]}

\* C13: a publish with scope above the maximum or with lower > upper returns no
\* publication and reports nothing, and the table (its name sequences, their
\* sub-sequences and publications) and local_publ_count are as before the call,
\* for tipc_nametbl_insert_publ and for the local tipc_nametbl_publish.
C13_IllegalRejected ==
    \A a \in IllegalPublishArgs :
        LET r == Publish(seq_hlist, a)
            l == tipc_nametbl_publish(seq_hlist, local_publ_count, a[1], a[2], a[3],
                                      a[4], a[6], a[7], NoFail)
        IN  /\ r.publ = NULL /\ r.hlist = seq_hlist /\ r.events = <<>>
            /\ l.publ = NULL /\ l.hlist = seq_hlist /\ l.events = <<>>
            /\ l.count = local_publ_count

\* An illegal publish reaches the test of its arguments while the type has a
\* subscription attached, a sub-sequence its range would fit next to with the
\* bounds swapped, and a local publication counted.
C13_Witness ==
    \E a \in IllegalPublishArgs :
        /\ a[2] > a[3]
        /\ tipc_nametbl_publish(seq_hlist, local_publ_count, a[1], a[2], a[3], a[4],
                                a[6], a[7], NoFail).tag = "illegal"
        /\ Subscriptions(seq_hlist, a[1]) # <<>>
        /\ Holding(Sseqs(seq_hlist, a[1]), a[2]) = {}
        /\ Sseqs(seq_hlist, a[1]) # <<>>
        /\ local_publ_count > 0

----------------------------------------------------------------------------
(* C14 *)

\* <<type, lower, upper, scope, port, key>> of a local publish.
LocalPublishArgs ==
    {<<a[1], a[2], a[3], a[4], a[6], a[7]>> : a \in AnyPublishArgs}

\* C14: local_publ_count is at most TIPC_MAX_PUBLICATIONS in every reachable
\* state, and a local publish attempted while the count equals the limit returns
\* no publication and leaves the table and the counter as they were.
C14_WithinLimit ==
    /\ local_publ_count <= TIPC_MAX_PUBLICATIONS
    /\ local_publ_count = TIPC_MAX_PUBLICATIONS =>
           \A a \in LocalPublishArgs :
               LET l == tipc_nametbl_publish(seq_hlist, local_publ_count, a[1], a[2],
                                             a[3], a[4], a[5], a[6], NoFail)
               IN  l.publ = NULL /\ l.hlist = seq_hlist /\ l.count = local_publ_count

\* The counter stands at the limit and a local publish the table would take
\* (a valid range with no publication yet) is refused for the limit.
C14_Witness ==
    /\ local_publ_count = TIPC_MAX_PUBLICATIONS
    /\ \E a \in LocalPublishArgs :
           /\ tipc_nametbl_publish(seq_hlist, local_publ_count, a[1], a[2], a[3],
                                   a[4], a[5], a[6], NoFail).tag = "limit"
           /\ tipc_nametbl_insert_publ(seq_hlist, a[1], a[2], a[3], a[4], OwnAddr,
                                       a[5], a[6], NoFail).publ # NULL

----------------------------------------------------------------------------
(* C15 *)

NoMemTags == {"nomem_nseq", "nomem_sseqs", "nomem_info", "nomem_publ"}

\* The linked sequences with their sub-sequences (first_free slots, their ranges
\* and binding sets) and subscriptions; the capacity of the arrays left out.
Content(hlist) ==
    [b \in Buckets |->
        [i \in 1 .. Len(hlist[b]) |->
            [type |-> hlist[b][i].type, sseqs |-> hlist[b][i].sseqs,
             subscriptions |-> hlist[b][i].subscriptions]]]

\* C15: a publish during which an allocation fails returns no publication and
\* leaves the table as it was: no sequence newly linked, no sub-sequence slot
\* added, first_free of every sequence unchanged.
C15_NoMemNoChange ==
    \A a \in PublishArgs, site \in AllocSites :
        LET r == tipc_nametbl_insert_publ(seq_hlist, a[1], a[2], a[3], a[4], a[5],
                                          a[6], a[7], {site})
        IN  r.tag \in NoMemTags =>
                r.publ = NULL /\ Content(r.hlist) = Content(seq_hlist)

\* The allocation of the publication fails in a publish of a range next to a
\* live sub-sequence of a sequence that has a subscription.
C15_Witness ==
    \E a \in PublishArgs :
        /\ tipc_nametbl_insert_publ(seq_hlist, a[1], a[2], a[3], a[4], a[5], a[6],
                                    a[7], {"publ"}).tag = "nomem_publ"
        /\ Holding(Sseqs(seq_hlist, a[1]), a[2]) = {}
        /\ Sseqs(seq_hlist, a[1]) # <<>>
        /\ Subscriptions(seq_hlist, a[1]) # <<>>

----------------------------------------------------------------------------
(* C16 *)

\* C16: in every state between calls (the sequence lock released) every live
\* sub-sequence, sseqs[0 .. first_free - 1] of a linked sequence, has a non-empty
\* all_publ list.  (A binding set is a field of its sub-sequence here: none
\* exists outside a live one.)
C16_LiveNonEmpty ==
    ~oops =>
        \A type \in Types :
            LET sseqs == Sseqs(seq_hlist, type)
            IN  \A i \in 1 .. Len(sseqs) : sseqs[i].info.all_publ # <<>>

\* A live sub-sequence with an empty all_publ list next to one that holds a
\* publication, and a translate that reads the first entry of the empty list.
C16_Witness ==
    \E type \in Types, instance \in Instances :
        LET sseqs == Sseqs(seq_hlist, type)
        IN  /\ \E i \in Holding(sseqs, instance) : sseqs[i].info.all_publ = <<>>
            /\ \E j \in 1 .. Len(sseqs) : sseqs[j].info.all_publ # <<>>
            /\ tipc_nametbl_translate(seq_hlist, type, instance, 0).ub

----------------------------------------------------------------------------
(* C17 *)

\* The linked sequences of a type.
Linked(hlist, type) ==
    {i \in 1 .. Len(hlist[hash(type)]) : hlist[hash(type)][i].type = type}

\* C17: in every state, also in the middle of the calls of concurrent threads
\* that publish, subscribe, withdraw and unsubscribe, at most one name sequence
\* of a type is linked into the table.
C17_OnePerType ==
    \A type \in Types : Cardinality(Linked(seq_hlist, type)) <= 1

\* One thread has created and linked the sequence of a type in its call and
\* still holds the lock, while the other thread is about to call for that type.
C17_Witness ==
    \E t \in Threads, u \in Threads :
        /\ t # u
        /\ pc[t] # Idle /\ pc[t].at = "unlock" /\ ~pc[t].found
        /\ pc[t].call \in {"publish", "subscribe"}
        /\ nametbl_lock = t
        /\ pc[u] = Idle
        /\ \E type \in Types : Cardinality(Linked(seq_hlist, type)) = 1

----------------------------------------------------------------------------
(* C18 *)

\* A linked sequence with no sub-sequence and no subscription.
EmptySequence(hlist) ==
    \E b \in Buckets : \E i \in 1 .. Len(hlist[b]) :
        first_free(hlist[b][i]) = 0 /\ hlist[b][i].subscriptions = <<>>

\* C18: between calls no linked sequence has zero sub-sequences and zero
\* subscriptions; the withdraw that removes its last publication and the
\* unsubscribe that detaches its last subscription unlink it before they return.
C18_NoEmptySequence ==
    ~oops =>
        /\ ~EmptySequence(seq_hlist)
        /\ \A w \in WithdrawArgs :
               LET r == Withdraw(seq_hlist, w) IN ~r.ub => ~EmptySequence(r.hlist)
        /\ \A s \in SubIds :
               subs[s].linked =>
                   ~EmptySequence(tipc_nametbl_unsubscribe(seq_hlist, s, subs[s]).hlist)

\* The allocation of the name_info fails in the publish that has just created
\* and linked the sequence of its type.
C18_Witness ==
    \E a \in PublishArgs :
        LET r == tipc_nametbl_insert_publ(seq_hlist, a[1], a[2], a[3], a[4], a[5],
                                          a[6], a[7], {"info"})
        IN  /\ Linked(seq_hlist, a[1]) = {}
            /\ r.tag = "nomem_info"
            /\ Linked(r.hlist, a[1]) # {}
            /\ EmptySequence(r.hlist)

----------------------------------------------------------------------------
(* C19 *)

\* The events of ev handed to subscription s.
EventsTo(ev, s) == {i \in 1 .. Len(ev) : ev[i].sub = s}

\* One event of ev for every subscription on the list and none for another.
OneEach(ev, on) ==
    \A s \in Subscribers :
        Cardinality(EventsTo(ev, s)) = IF list_member(s, on) THEN 1 ELSE 0

\* C19: a publish that succeeds reports exactly one PUBLISHED event to each
\* subscription attached to the sequence of the type, with lower, upper, port,
\* node and scope of the new publication and with the flag set if and only if
\* the publish created the sub-sequence; a publish that is rejected reports none.
C19_PublishedEvents ==
    \A a \in AnyPublishArgs :
        LET r == Publish(seq_hlist, a)
            before == Sseqs(seq_hlist, a[1])
            after == Sseqs(r.hlist, a[1])
        IN  IF r.publ = NULL
            THEN r.events = <<>>
            ELSE /\ OneEach(r.events, Subscriptions(seq_hlist, a[1]))
                 /\ \A i \in 1 .. Len(r.events) :
                        LET e == r.events[i]
                        IN  /\ e.event = "PUBLISHED"
                            /\ e.lower = a[2] /\ e.upper = a[3]
                            /\ e.port = a[6] /\ e.node = a[5] /\ e.scope = a[4]
                            /\ e.must <=> Len(after) = Len(before) + 1
                            /\ ~e.must <=> Holding(before, a[2]) # {}

\* Two subscriptions are attached; one publish creates a sub-sequence and
\* another joins an existing one.
C19_Witness ==
    \E a \in PublishArgs, b \in PublishArgs :
        /\ Len(Subscriptions(seq_hlist, a[1])) = 2
        /\ a[1] = b[1]
        /\ Publish(seq_hlist, a).tag = "created_subseq"
        /\ Publish(seq_hlist, b).tag = "existing_subseq"
        /\ Len(Publish(seq_hlist, a).events) = 2

----------------------------------------------------------------------------
(* C20 *)

\* C20: a withdraw that removes a publication and returns reports exactly one
\* WITHDRAWN event to each subscription attached to the sequence of the type,
\* with lower, upper, port, node and scope of the removed publication and with
\* the flag set if and only if the publication was the last one of its
\* sub-sequence and the slot of the sub-sequence was deleted.
C20_WithdrawnEvents ==
    \A w \in WithdrawArgs :
        LET r == Withdraw(seq_hlist, w)
            before == Sseqs(seq_hlist, w[1])
            after == Sseqs(r.hlist, w[1])
        IN  r.publ # NULL =>
                /\ OneEach(r.events, Subscriptions(seq_hlist, w[1]))
                /\ \A i \in Holding(before, w[2]) :
                       /\ list_member(r.publ, before[i].info.all_publ)
                       /\ \A k \in 1 .. Len(r.events) :
                              LET e == r.events[k]
                              IN  /\ e.event = "WITHDRAWN"
                                  /\ e.lower = r.publ.lower /\ e.upper = r.publ.upper
                                  /\ e.lower = before[i].lower
                                  /\ e.upper = before[i].upper
                                  /\ Triple(e) = Triple(r.publ)
                                  /\ e.must <=> Len(before[i].info.all_publ) = 1
                                  /\ e.must <=> Len(after) = Len(before) - 1
                                  /\ ~e.must <=> Len(after) = Len(before)

\* Two subscriptions are attached and a withdraw takes one of the two
\* publications of a sub-sequence: two events without the flag.
C20_Witness ==
    \E v \in WithdrawArgs :
        LET r == Withdraw(seq_hlist, v)
        IN  /\ Len(Subscriptions(seq_hlist, v[1])) = 2
            /\ r.tag = "kept_subseq"
            /\ Len(r.events) = 2
            /\ ~r.events[1].must /\ ~r.events[2].must

----------------------------------------------------------------------------
(* C24 *)

\* The publication is on a list of some binding set of the table.
OnSomeList(hlist, publ) ==
    \E b \in Buckets : \E i \in 1 .. Len(hlist[b]) :
        \E k \in 1 .. Len(hlist[b][i].sseqs) :
            LET info == hlist[b][i].sseqs[k].info
            IN  list_member(publ, info.all_publ) \/ list_member(publ, info.local_publ)

\* C24: in every reachable state every entry of a local_publ list is an entry
\* of the all_publ list of the same binding set; a withdraw that returns a
\* publication has taken it off every list, and when it frees the binding set
\* (the publication was the last of all_publ) the local list held nothing else.
C24_LocalWithinAll ==
    /\ \A type \in Types :
           LET sseqs == Sseqs(seq_hlist, type)
           IN  \A i \in 1 .. Len(sseqs) :
                   \A k \in 1 .. Len(sseqs[i].info.local_publ) :
                       list_member(sseqs[i].info.local_publ[k], sseqs[i].info.all_publ)
    /\ \A w \in WithdrawArgs :
           LET r == Withdraw(seq_hlist, w)
               sseqs == Sseqs(seq_hlist, w[1])
           IN  r.publ # NULL =>
                   /\ ~OnSomeList(r.hlist, r.publ)
                   /\ r.tag = "removed_subseq" =>
                          \A i \in Holding(sseqs, w[2]) :
                              \A k \in 1 .. Len(sseqs[i].info.local_publ) :
                                  sseqs[i].info.local_publ[k] = r.publ

\* A withdraw takes a publication that is on the local list of a sub-sequence
\* with two local publications, and another withdraw takes the last publication
\* of a sub-sequence, which is a local one, and frees the binding set.
C24_Witness ==
    \E w \in WithdrawArgs :
        LET r == Withdraw(seq_hlist, w)
            sseqs == Sseqs(seq_hlist, w[1])
        IN  /\ r.publ # NULL
            /\ \E i \in Holding(sseqs, w[2]) :
                   /\ list_member(r.publ, sseqs[i].info.local_publ)
                   /\ Len(sseqs[i].info.local_publ) = 2
            /\ \E v \in WithdrawArgs :
                   LET q == Withdraw(r.hlist, v)
                   IN  /\ q.tag = "removed_subseq"
                       /\ in_own_node(q.publ.node)

----------------------------------------------------------------------------
(* C25 *)

\* The destination lists a caller hands to a lookup: no pair twice.
DestLists == {<<>>, <<<<OwnAddr, 1>>>>, <<<<RemoteAddr, 1>>, <<OwnAddr, 2>>>>}

\* No destination is on the list twice.
NoDuplicate(l) == \A i, j \in 1 .. Len(l) : l[i] = l[j] => i = j

\* The positions of all_publ that a lookup accepts: the scope is the requested
\* one and the publication is not (own node, exclude).
Acceptable(all, scope, exclude) ==
    {k \in 1 .. Len(all) :
        /\ all[k].scope = scope
        /\ ~(all[k].node = OwnAddr /\ all[k].port = exclude)}

\* The smallest member of a non-empty set of positions.
FirstOf(S) == CHOOSE k \in S : \A j \in S : k <= j

----------------------------------------------------------------------------
(* C29 *)

\* The table with every binding list replaced by the set of its publications.
Unordered(hlist) ==
    [b \in Buckets |->
        [i \in 1 .. Len(hlist[b]) |->
            [type |-> hlist[b][i].type,
             subscriptions |-> hlist[b][i].subscriptions,
             sseqs |-> [k \in 1 .. Len(hlist[b][i].sseqs) |->
                          [lower |-> hlist[b][i].sseqs[k].lower,
                           upper |-> hlist[b][i].sseqs[k].upper,
                           all_publ |-> Range(hlist[b][i].sseqs[k].info.all_publ),
                           local_publ |-> Range(hlist[b][i].sseqs[k].info.local_publ)]]]]]

\* The binding lists, <<bucket, sequence, sub-sequence, field>>, that differ
\* between two tables of the same shape.
Reordered(before, after) ==
    {x \in Buckets \X (1 .. MaxPubl) \X (1 .. MaxPubl) \X {"all_publ", "local_publ"} :
        /\ x[2] <= Len(before[x[1]])
        /\ x[3] <= Len(before[x[1]][x[2]].sseqs)
        /\ before[x[1]][x[2]].sseqs[x[3]].info[x[4]] #
               after[x[1]][x[2]].sseqs[x[3]].info[x[4]]}

\* The call changed nothing but the order of at most one binding list.
OrderOnly(before, after) ==
    /\ Unordered(after) = Unordered(before)
    /\ Cardinality(Reordered(before, after)) <= 1

\* A translate that selected a publication took the head of the list it names
\* and left that list with the head moved to the tail.
TranslateTakesHead(hlist, type, instance, destnode) ==
    LET t == tipc_nametbl_translate(hlist, type, instance, destnode)
        sseqs == Sseqs(hlist, type)
    IN  /\ OrderOnly(hlist, t.hlist)
        /\ t.tag \in {"all_publ", "local_publ"} =>
               \A i \in Holding(sseqs, instance) :
                   LET list == sseqs[i].info[t.tag]
                   IN  /\ <<t.port, t.destnode>> = <<Head(list).port, Head(list).node>>
                       /\ Sseqs(t.hlist, type)[i].info[t.tag] =
                              list_move_tail(Head(list), list)
        /\ t.tag \notin {"all_publ", "local_publ"} => t.hlist = hlist

\* C29 as stated: translate and lookup with all = false change only the order
\* of one binding list, the selected publication being the head of the list it
\* is taken from and moved to its tail.
C29_HeadToTail ==
    /\ \A type \in Types, instance \in Instances, destnode \in DestNodes :
           TranslateTakesHead(seq_hlist, type, instance, destnode)
    /\ \A type \in Types, instance \in Instances, scope \in LookupScopes,
          exclude \in Ports \cup {0} :
           LET r == tipc_nametbl_lookup(seq_hlist, type, instance, scope, <<>>,
                                        exclude, FALSE)
               sseqs == Sseqs(seq_hlist, type)
           IN  /\ OrderOnly(seq_hlist, r.hlist)
               /\ r.publ # NULL =>
                      \A i \in Holding(sseqs, instance) :
                          /\ r.publ = Head(sseqs[i].info.all_publ)
                          /\ Sseqs(r.hlist, type)[i].info.all_publ =
                                 list_move_tail(r.publ, sseqs[i].info.all_publ)

\* C29 amended: translate and lookup with all = false change only the order of
\* one binding list; translate selects the head of the list it takes from, a
\* lookup the first publication in list order that has the requested scope and
\* is not (own node, exclude); the selected publication is moved to the tail of
\* that list, and the sets of publications of every list, the sub-sequence
\* arrays and the subscription lists are the same before and after.
C29_FirstMatchToTail ==
    /\ \A type \in Types, instance \in Instances, destnode \in DestNodes :
           TranslateTakesHead(seq_hlist, type, instance, destnode)
    /\ \A type \in Types, instance \in Instances, scope \in LookupScopes,
          exclude \in Ports \cup {0} :
           LET r == tipc_nametbl_lookup(seq_hlist, type, instance, scope, <<>>,
                                        exclude, FALSE)
               sseqs == Sseqs(seq_hlist, type)
           IN  /\ OrderOnly(seq_hlist, r.hlist)
               /\ r.publ = NULL => r.hlist = seq_hlist
               /\ r.publ # NULL =>
                      \A i \in Holding(sseqs, instance) :
                          LET list == sseqs[i].info.all_publ
                          IN  /\ r.publ = list[FirstOf(Acceptable(list, scope, exclude))]
                              /\ Sseqs(r.hlist, type)[i].info.all_publ =
                                     list_move_tail(r.publ, list)

\* A translate rotates a local list of two publications, and a lookup with
\* all = false over an all list of two takes the second because the head is
\* the excluded local port, which is the tail already; the translate and a
\* lookup that excludes nothing reorder exactly one list each.
C29_Witness ==
    \E type \in Types, instance \in Instances, exclude \in Ports :
        LET sseqs == Sseqs(seq_hlist, type)
            t == tipc_nametbl_translate(seq_hlist, type, instance, 0)
            r == tipc_nametbl_lookup(seq_hlist, type, instance, TIPC_NODE_SCOPE,
                                     <<>>, exclude, FALSE)
        IN  \E i \in Holding(sseqs, instance) :
                /\ Len(sseqs[i].info.local_publ) = 2
                /\ t.tag = "local_publ"
                /\ Reordered(seq_hlist, t.hlist) =
                       {<<hash(type), 1, i, "local_publ">>}
                /\ r.publ = sseqs[i].info.all_publ[2]
                /\ Reordered(seq_hlist, r.hlist) = {}
                /\ Reordered(seq_hlist,
                             tipc_nametbl_lookup(seq_hlist, type, instance,
                                                 TIPC_NODE_SCOPE, <<>>, 0, FALSE).hlist) =
                       {<<hash(type), 1, i, "all_publ">>}

----------------------------------------------------------------------------
(* C26 *)

\* The ports of the publications on the local lists of the sub-sequences of the
\* type that satisfy the predicate on <<lower, upper>> and have a wanted scope.
LocalPorts(hlist, type, InRange(_, _), scope, exact) ==
    LET sseqs == Sseqs(hlist, type)
    IN  {sseqs[x[1]].info.local_publ[x[2]].port :
            x \in {y \in (1 .. Len(sseqs)) \X (1 .. MaxPubl) :
                     /\ y[2] <= Len(sseqs[y[1]].info.local_publ)
                     /\ InRange(sseqs[y[1]].lower, sseqs[y[1]].upper)
                     /\ LET sc == sseqs[y[1]].info.local_publ[y[2]].scope
                        IN  IF exact THEN sc = scope ELSE sc <= scope}}

\* The ports a multicast lookup returns into an empty list.
McPorts(hlist, type, lower, upper, scope, exact) ==
    {d[2] : d \in Range(tipc_nametbl_mc_lookup(hlist, type, lower, upper, scope,
                                               exact, <<>>))}

----------------------------------------------------------------------------
(* C27 *)

\* The publications on the all lists of a name sequence.
PublicationsOf(nseq) ==
    UNION {Range(nseq.sseqs[k].info.all_publ) : k \in 1 .. Len(nseq.sseqs)}

\* C27: a stop that completes has taken every publication of every sub-sequence
\* of every type off its binding set and handed it to kfree_rcu, also those of a
\* type with two or more sub-sequences, and leaves no name sequence linked.
C27_AllPurged ==
    LET r == tipc_nametbl_stop(seq_hlist)
    IN  \A b \in Buckets :
            /\ r.hlist[b] = <<>>
            /\ \A i \in 1 .. Len(seq_hlist[b]) :
                   /\ Range(r.purged[b][i].freed) = PublicationsOf(seq_hlist[b][i])
                   /\ PublicationsOf(r.purged[b][i].nseq) = {}

\* A stop of a table whose only sequence has one sub-sequence with two
\* publications hands both to kfree_rcu and leaves no binding set.
C27_Witness ==
    LET r == tipc_nametbl_stop(seq_hlist)
    IN  \E type \in Types :
            /\ Len(Sseqs(seq_hlist, type)) = 1
            /\ Len(Sseqs(seq_hlist, type)[1].info.all_publ) = 2
            /\ Len(r.purged[hash(type)][1].freed) = 2
            /\ r.purged[hash(type)][1].nseq.sseqs = <<>>
            /\ ~r.ub

----------------------------------------------------------------------------
(* C28 *)

\* The name sequences that have s on their subscription list.
ListsOf(hlist, s) ==
    {x \in Buckets \X (1 .. MaxPubl + 1) :
        /\ x[2] <= Len(hlist[x[1]])
        /\ list_member(s, hlist[x[1]][x[2]].subscriptions)}

\* C28: on a live table an attached subscription is on the subscription list
\* of exactly one name sequence; an unsubscribe takes it off that list and
\* releases the reference taken at subscribe time, and so does the purge of its
\* name sequence by a stop.
C28_Detached ==
    ~stopped =>
        \A s \in Subscribers :
            subs[s].linked =>
                /\ Cardinality(ListsOf(seq_hlist, s)) = 1
                /\ LET u == tipc_nametbl_unsubscribe(seq_hlist, s, subs[s])
                   IN  ListsOf(u.hlist, s) = {} /\ u.put
                /\ LET r == tipc_nametbl_stop(seq_hlist)
                   IN  /\ \A x \in ListsOf(seq_hlist, s) :
                              ~list_member(s, r.purged[x[1]][x[2]].nseq.subscriptions)
                       /\ s \in r.put

\* A subscription attached to a sequence that has a publication: the
\* unsubscribe detaches it and releases the reference, the stop purges the
\* publication of the sequence and reports it WITHDRAWN to the subscription.
C28_Witness ==
    \E s \in Subscribers :
        LET u == tipc_nametbl_unsubscribe(seq_hlist, s, subs[s])
            r == tipc_nametbl_stop(seq_hlist)
        IN  /\ subs[s].linked /\ ~stopped
            /\ ListsOf(seq_hlist, s) = {<<hash(subs[s].type), 1>>}
            /\ u.put /\ u.tag = "seq_kept"
            /\ ~r.ub
            /\ Len(r.purged[hash(subs[s].type)][1].freed) = 1
            /\ Len(r.purged[hash(subs[s].type)][1].events) = 1

----------------------------------------------------------------------------
(* C30 *)

\* The dump has stopped at a publication and remembers where.
Remembered(args) == args.last_type # 0 /\ ~args.done

\* The remembered position is gone: the type has no name sequence, or no
\* sub-sequence of it holds the remembered lower, or the one that does has no
\* publication with the remembered key.
ResumeGone(hlist, args) ==
    LET sseqs == Sseqs(hlist, args.last_type)
    IN  \/ nametbl_find_seq(hlist, args.last_type) = 0
        \/ Holding(sseqs, args.last_lower) = {}
        \/ \E i \in Holding(sseqs, args.last_lower) :
               \A k \in 1 .. Len(sseqs[i].info.all_publ) :
                   sseqs[i].info.all_publ[k].key # args.last_publ

\* The passes a resumed dump can make: every room, and for the word read behind
\* the list head either value.
ResumePasses(hlist, args) ==
    {r \in {tipc_nl_name_table_dump(hlist, args, x[1], x[2]) :
               x \in DumpRooms \X BOOLEAN} : TRUE}

\* C30: a dump resumed with a remembered cursor whose type has no name sequence
\* any more, whose lower is in no sub-sequence of the type any more, or whose
\* key no publication of that sub-sequence has any more, returns -EPIPE and
\* puts no publication into the message.
C30_ResumeInvalid ==
    Remembered(cb) /\ ResumeGone(seq_hlist, cb) =>
        \A r \in ResumePasses(seq_hlist, cb) : r.err = "EPIPE" /\ r.out = <<>>

\* A dump that stopped in the sub-sequence [1,1] for want of room is resumed
\* after that sub-sequence was withdrawn while [0,0] is still there: -EPIPE,
\* nothing in the message, cb->prev_seq set and the cursor kept.
C30_Witness ==
    /\ Remembered(cb) /\ cb.last_lower = 1
    /\ Len(Sseqs(seq_hlist, cb.last_type)) = 1
    /\ Sseqs(seq_hlist, cb.last_type)[1].upper = 0
    /\ \A r \in ResumePasses(seq_hlist, cb) :
           r.err = "EPIPE" /\ r.out = <<>> /\ r.intr /\ r.args = cb /\ ~r.ub


----------------------------------------------------------------------------
(* C21 *)

\* The reports made to subscription s, in the order they were made.
ReportsTo(s) == SelectSeq(log, LAMBDA e : e.ev.sub = s)

\* The reports of a list that reach subscription s as events: those of a range
\* overlapping the subscribed one.
OverlapEvents(s, reports) ==
    SelectSeq(reports, LAMBDA e : tipc_sub_check_overlap(subs[s], e.ev.lower, e.ev.upper))

\* A publication as an event names it.
NamedBy(e) == <<e.lower, e.upper, e.port, e.node>>

\* What subscription s holds after the events ev[k..]: c.have, and c.ok unless
\* an event published what s held or withdrew what it did not hold.
RECURSIVE Replay(_, _, _)
Replay(ev, k, c) ==
    IF k > Len(ev)
    THEN c
    ELSE LET e == ev[k].ev
         IN  Replay(ev, k + 1,
                    IF e.event = "PUBLISHED"
                    THEN [have |-> c.have \cup {NamedBy(e)},
                          ok |-> c.ok /\ NamedBy(e) \notin c.have]
                    ELSE [have |-> c.have \ {NamedBy(e)},
                          ok |-> c.ok /\ NamedBy(e) \in c.have])

\* The publications of the sequence of a type whose range overlaps the one
\* subscription s asks for.
Overlapping(s) ==
    IF ~subs[s].linked \/ nametbl_find_seq(seq_hlist, subs[s].type) = 0
    THEN {}
    ELSE LET pos == nametbl_find_seq(seq_hlist, subs[s].type)
             nseq == seq_hlist[hash(subs[s].type)][pos]
         IN  {<<p.lower, p.upper, p.port, p.node>> :
                 p \in {q \in PublicationsOf(nseq) :
                           tipc_sub_check_overlap(subs[s], q.lower, q.upper)}}

\* The table holds the publication event e names.
InTable(type, e) ==
    LET pos == nametbl_find_seq(seq_hlist, type)
    IN  /\ pos # 0
        /\ \E p \in PublicationsOf(seq_hlist[hash(type)][pos]) :
               <<p.lower, p.upper, p.port, p.node>> = NamedBy(e)

\* The calls of the reports are in the order the calls changed the table, and a
\* call with reports to make is the last that changed it.
InCallOrder ==
    /\ \A i, j \in 1 .. Len(log) : i < j => log[i].call <= log[j].call
    /\ \A t \in Threads :
           pc[t] # Idle /\ pc[t].events # <<>> => pc[t].n = ncalls /\ pc[t].n > 0

\* The events of subscription s start with its snapshot, made by one subscribe,
\* and go on with live events of later calls; no publication is reported twice
\* or withdrawn unreported; and with no report left to make s holds the
\* overlapping publications of the table.
SnapshotThenLive(s) ==
    LET mine == ReportsTo(s)
        r == Replay(OverlapEvents(s, mine), 1, [have |-> {}, ok |-> TRUE])
    IN  /\ \A i, j \in 1 .. Len(mine) :
               /\ mine[i].kind = "subscribe" /\ mine[j].kind = "subscribe"
                      => mine[i].call = mine[j].call
               /\ mine[i].kind = "subscribe" /\ mine[j].kind # "subscribe"
                      => i < j /\ mine[i].call < mine[j].call
        /\ r.ok
        /\ (\A t \in Threads : pc[t] # Idle => pc[t].at \notin {"body", "deliver"})
               => r.have = Overlapping(s)

\* A report to make finds its cause in the table: the publication of a
\* published event is there, the one of a withdrawn event is gone.
CauseApplied ==
    \A t \in Threads :
        pc[t] # Idle =>
            \A k \in 1 .. Len(pc[t].events) :
                LET e == pc[t].events[k]
                IN  InTable(OrderType(t), e) <=> e.event = "PUBLISHED"

\* C21: for concurrent publish, withdraw and subscribe calls on one type the
\* events of each subscription come in the order the calls changed the
\* sequence: all reports of a call, the snapshot of a subscribe included, before
\* any of the next; a subscription attached between two changes has the first
\* in its snapshot only and the second as a live event only; and when an event
\* is delivered the table already holds the change that caused it.
C21_EventOrder ==
    ~oops => /\ InCallOrder
             /\ \A s \in Subscribers : SnapshotThenLive(s)
             /\ CauseApplied

\* A subscription attached between two publishes got the first in its snapshot
\* and the second as a live event, and the publishing thread is about to drop
\* the directory lock.
C21_Witness ==
    /\ ~oops
    /\ \E s \in Subscribers :
           LET mine == ReportsTo(s)
           IN  /\ Len(mine) = 2
               /\ mine[1].kind = "subscribe" /\ mine[1].call = 2
               /\ mine[2].kind = "publish" /\ mine[2].call = 3
               /\ mine[1].ev.lower # mine[2].ev.lower
    /\ \E t \in Threads : pc[t] # Idle /\ pc[t].at = "unlock" /\ pc[t].call = "publish"


----------------------------------------------------------------------------
(* C22 *)

\* The sequence locks thread t holds.
SeqLocksOf(t) == IF pc[t] = Idle THEN <<>> ELSE SelectSeq(pc[t].held, LAMBDA l : l # DirLock)

\* The lock thread t is about to take with spin_lock_bh, NoObj when it is not at
\* one.
Wants(t) ==
    IF pc[t] = Idle THEN NoObj
    ELSE IF pc[t].call \in LockReaders /\ pc[t].at = "lock" THEN pc[t].ref
    ELSE IF pc[t].at = "find" /\ pc[t].call \in LockWriters
            /\ nametbl_find_seq(seq_hlist, pc[t].a[1]) # 0
    THEN SeqObj(pc[t].a[1])
    ELSE IF pc[t].at = "purge_next" /\ \E b \in Buckets : seq_hlist[b] # <<>>
    THEN SeqObj(seq_hlist[CHOOSE b \in Buckets : seq_hlist[b] # <<>>][1].type)
    ELSE NoObj

\* Thread t cannot go on before thread u has: u holds the lock t wants, or t
\* is in synchronize_net and u in the read-side section it waits for.
WaitsFor(t, u) ==
    /\ pc[t] # Idle /\ pc[u] # Idle
    /\ \/ Wants(t) # NoObj /\ list_member(Wants(t), pc[u].held)
       \/ pc[t].at = "synchronize" /\ u \in pc[t].wait

\* C22: no thread holds two sequence locks at a time; a thread that holds the
\* directory lock and a sequence lock took the directory lock first; and no
\* interleaving of publish, withdraw, subscribe, unsubscribe, translate, lookup,
\* multicast lookup, dump and stop gets threads to wait for each other for
\* ever: of every set of threads one waits for none of the set.
C22_LockOrder ==
    ~oops =>
        /\ \A t \in Threads : Len(SeqLocksOf(t)) <= 1
        /\ \A t \in Threads :
               pc[t] # Idle /\ list_member(DirLock, pc[t].held)
                   => pc[t].held[1] = DirLock /\ nametbl_lock = t
        /\ \A S \in SUBSET Threads :
               S # {} => \E t \in S : \A u \in S : ~WaitsFor(t, u)

\* The stop holds the directory lock and the lock of a sequence, and the dump
\* of the other thread waits for that lock.
C22_Witness ==
    /\ ~oops
    /\ \E t, u \in Threads :
           /\ pc[t] # Idle /\ pc[t].call = "stop" /\ Len(pc[t].held) = 2
           /\ pc[u] # Idle /\ pc[u].call = "dump" /\ WaitsFor(u, t)

----------------------------------------------------------------------------
(* C23 *)

\* The objects freed by a step: unlinked before it and gone after it.
FreedByStep == {e \in rcu : \A f \in rcu' : f.obj # e.obj}

\* No reader inside its read-side section has a pointer to a freed name_seq.
NoDangling ==
    \A t \in InsideRcu :
        pc[t].ref # NoObj => OnChain(pc[t].ref) \/ \E e \in rcu : e.obj = pc[t].ref

\* C23: a name_seq unlinked from its bucket, and a publication removed by
\* withdraw or purge, is not freed while a reader (translate, lookup, multicast
\* lookup, dump) that entered its read-side section before the unlink is still
\* inside it: every step that frees an object leaves none of those readers
\* inside, and no reader inside has a pointer to a freed name_seq.
C23_DeferredFree ==
    [][/\ \A e \in FreedByStep : e.before \cap InsideRcu' = {}
       /\ NoDangling']_vars

\* A reader holds the lock of a name_seq that was unlinked and handed to
\* kfree_rcu after the reader had found it.
C23_Witness ==
    \E t \in InsideRcu : \E e \in rcu :
        /\ pc[t].at = "body" /\ pc[t].ref = e.obj
        /\ e.obj[1] = "seq" /\ e.state = "queued"
        /\ t \in e.before /\ t \in e.wait


----------------------------------------------------------------------------
(* C31 *)

\* The sequences on the chains of the table.
LinkedSeqs == UNION {Range(seq_hlist[b]) : b \in Buckets}

\* nameseq_find_subseq agrees with the linear scan of the live sub-sequences of
\* nseq for the instance.
AsLinearScan(nseq, instance) ==
    LET hits == Holding(nseq.sseqs, instance)
        idx == nameseq_find_subseq(nseq, instance)
    IN  IF hits = {} THEN idx = NOT_FOUND ELSE hits = {idx + 1}

\* C31: for every sorted, disjoint sub-sequence array and every instance
\* nameseq_find_subseq returns the one sub-sequence with lower <= instance <=
\* upper when there is one and none otherwise, as a linear scan of the live
\* entries does; on a sequence with no live sub-sequence it returns none and
\* reads no entry of the array.
C31_BinarySearch ==
    /\ \A nseq \in LinkedSeqs : \A instance \in 0 .. FindMaxInst + 1 :
           AsLinearScan(nseq, instance)
    /\ \A type \in Types, instance \in 0 .. FindMaxInst + 1 :
           nameseq_find_subseq(tipc_nameseq_create(type, NoFail), instance) = NOT_FOUND

\* A sequence of four sub-sequences: the search finds the last and the first,
\* and finds none for an instance between two of them.
C31_Witness ==
    \E nseq \in LinkedSeqs :
        /\ first_free(nseq) = 4
        /\ \E i, j, k \in 0 .. FindMaxInst :
               /\ nameseq_find_subseq(nseq, i) = 3
               /\ nameseq_find_subseq(nseq, j) = 0
               /\ nameseq_find_subseq(nseq, k) = NOT_FOUND
               /\ sseq_at(nseq, 0).upper < k /\ k < sseq_at(nseq, 3).lower


----------------------------------------------------------------------------
(* C32 *)

\* C32: local_publ_count is the number of publications now in the table that
\* tipc_nametbl_publish inserted and no call has removed since; being the size
\* of a set of publications of the table, it is never more than the number of
\* publications in the table, and it never wraps below zero.
C32_CountsPublished ==
    local_publ_count <= NumPubl(seq_hlist)

\* A withdraw finds a publication while local_publ_count is 0: one that
\* tipc_nametbl_insert_publ stored for node 0 or for the own node.
C32_Witness ==
    /\ local_publ_count = 0
    /\ \E type \in Types, lower \in Instances, port \in Ports, key \in Keys :
           LET w == tipc_nametbl_withdraw(seq_hlist, local_publ_count, type, lower,
                                          port, key)
           IN  w.publ # NULL /\ w.count = CountMod - 1


----------------------------------------------------------------------------
(* C33 *)

\* The publications of the sub-sequence holding lower that were stored with
\* (node, port, key).
StoredWith(hlist, type, lower, node, port, key) ==
    {publ \in UNION {Range(Sseqs(hlist, type)[i].info.all_publ) :
                        i \in Holding(Sseqs(hlist, type), lower)} :
        publ.node = node /\ publ.port = port /\ publ.key = key}

\* C33: a remove of (type, lower, node, port, key) from a sub-sequence that has
\* a publication stored with that (node, port, key) removes that publication,
\* not one stored with another node, in whatever order the publications of the
\* nodes (node 0 among them) were inserted.
C33_RemovesNamed ==
    \A type \in Types, lower \in Instances, node \in Nodes, port \in Ports,
       key \in Keys :
        LET r == tipc_nametbl_remove_publ(seq_hlist, type, lower, node, port, key)
        IN  StoredWith(seq_hlist, type, lower, node, port, key) # {} =>
                /\ r.publ # NULL
                /\ r.publ \in StoredWith(seq_hlist, type, lower, node, port, key)

\* A sub-sequence has a publication of a node other than 0 and, inserted after
\* it, one of node 0 with the same port and key; a remove naming the first
\* succeeds.
C33_Witness ==
    \E type \in Types, lower \in Instances, node \in Nodes \ {0}, port \in Ports,
       key \in Keys :
        /\ StoredWith(seq_hlist, type, lower, node, port, key) # {}
        /\ StoredWith(seq_hlist, type, lower, 0, port, key) # {}
        /\ tipc_nametbl_remove_publ(seq_hlist, type, lower, node, port, key).publ # NULL


----------------------------------------------------------------------------
(* C34 *)

\* The number of reports of the event that subscription s has received, of
\* those with the flag set when flagged.
Received(s, event, flagged) ==
    Cardinality({i \in DOMAIN log :
                    /\ log[i].ev.sub = s
                    /\ log[i].ev.event = event
                    /\ flagged => log[i].ev.must})

\* No call on the type is between its lock and its return.
Quiet(type) == \A t \in Threads : pc[t] # Idle => OrderType(t) # type

----------------------------------------------------------------------------
(* C35 *)

\* The readers that hold the lock of a name_seq they found before it was
\* unlinked, whose sseqs array is freed while first_free still counts
\* sub-sequences: their searches and loops run over the freed array.
ReadingFreed ==
    {t \in Threads :
        /\ pc[t] # Idle /\ pc[t].call \in LockReaders /\ pc[t].at = "body"
        /\ ~OnChain(pc[t].ref)
        /\ \E e \in rcu : e.obj = pc[t].ref /\ e.stale}

\* C35: no translate, lookup, multicast lookup or dump that obtained a name_seq
\* before it was unlinked reads a freed sub-sequence array or binding set,
\* whether the name_seq was unlinked by a withdraw, an unsubscribe or
\* tipc_nametbl_stop.
C35_NoReadOfFreed ==
    ReadingFreed = {}

\* A reader holds the lock of a name_seq that a withdraw or an unsubscribe
\* unlinked after the reader had found it; its first_free is 0.
C35_Witness ==
    \E t \in Threads :
        /\ pc[t] # Idle /\ pc[t].call \in LockReaders /\ pc[t].at = "body"
        /\ ~OnChain(pc[t].ref)
        /\ \E e \in rcu : e.obj = pc[t].ref /\ ~e.stale


----------------------------------------------------------------------------
(* C36 *)

\* The references of subscription object s the name table has acquired with
\* tipc_sub_get, or released with tipc_sub_put.
Refs(s, kind) == Cardinality({i \in DOMAIN log : log[i] = RefEntry(s, kind)})

\* C36: for every subscription object, after every sequence of subscribe,
\* unsubscribe and stop calls, the name table has released with tipc_sub_put
\* no more references than it acquired with tipc_sub_get.
C36_PutWithinGet ==
    \A s \in Subscribers : Refs(s, "put") <= Refs(s, "get")

\* An object that was attached has been unsubscribed: one reference acquired
\* and one released; another is attached, and the table is stopped with it.
C36_Witness ==
    /\ stopped
    /\ \E s \in Subscribers : Refs(s, "get") = 1 /\ Refs(s, "put") = 1
    /\ \E s \in Subscribers : Refs(s, "get") = 1 /\ Refs(s, "put") = 0 /\ subs[s].linked


----------------------------------------------------------------------------
(* C37 *)

\* C37: the count a lookup reports in dstcnt is the number of destination
\* entries the call added to the list, for every binding set and every list
\* the caller hands in.
C37_CountIsAdded ==
    \A type \in Types, instance \in Instances, scope \in LookupScopes,
       exclude \in Ports \cup {0}, all \in BOOLEAN, dsts \in DestLists :
        LET r == tipc_nametbl_lookup(seq_hlist, type, instance, scope, dsts,
                                     exclude, all)
        IN  r.dstcnt = Len(r.dsts) - Len(dsts)

\* A lookup for all destinations into an empty list finds two publications of
\* different sockets and reports 2, and the same lookup into a list that holds
\* one of the two pairs adds the other.
C37_Witness ==
    \E type \in Types, instance \in Instances, scope \in LookupScopes, dsts \in DestLists :
        LET r == tipc_nametbl_lookup(seq_hlist, type, instance, scope, <<>>, 0, TRUE)
            q == tipc_nametbl_lookup(seq_hlist, type, instance, scope, dsts, 0, TRUE)
        IN  /\ r.dstcnt = 2 /\ Len(r.dsts) = 2
            /\ dsts # <<>> /\ Len(q.dsts) = Len(dsts) + 1


----------------------------------------------------------------------------
(* C38 *)

\* The pages a dump is followed for.
MaxPages == 4

\* A dump resumed from the cursor args on an unchanging table, page after page
\* with the same room, for at most n pages: what it put into the messages, in
\* order, the pages it took and whether it reported done.
RECURSIVE DumpPages(_, _, _, _)
DumpPages(hlist, args, room, n) ==
    IF args.done \/ n = 0
    THEN [out |-> <<>>, pages |-> 0, done |-> args.done]
    ELSE \* the keys are in the table: no read behind a list head
         LET r == tipc_nl_name_table_dump(hlist, args, room, FALSE)
             more == DumpPages(hlist, r.args, room, n - 1)
         IN  [out |-> r.out \o more.out, pages |-> more.pages + 1, done |-> more.done]

\* The publications of the table as a dump reports them.
DumpEntries(hlist) ==
    UNION {{<<hlist[b][i].type, hlist[b][i].sseqs[k].lower, hlist[b][i].sseqs[k].upper, p>> :
               p \in Range(hlist[b][i].sseqs[k].info.all_publ)} :
           <<b, i, k>> \in {x \in Buckets \X (1 .. MaxPages) \X (1 .. MaxPages) :
                               /\ x[2] <= Len(hlist[x[1]])
                               /\ x[3] <= Len(hlist[x[1]][x[2]].sseqs)}}

\* C38: on a table that does not change between the pages, a dump resumed from
\* the stored cursor after each full message puts every publication of the
\* table into the messages exactly once and then reports done, also for
\* publications of one sub-sequence with the same key and for a sub-sequence
\* with lower 0.
C38_DumpOnce ==
    \A room \in DumpRooms :
        LET d == DumpPages(seq_hlist, NoCursor, room, MaxPages)
        IN  /\ d.done
            /\ NoDuplicate(d.out)
            /\ Range(d.out) = DumpEntries(seq_hlist)

\* A dump with room for one publication per message takes more than one page
\* over a sub-sequence with lower 0 and another one, and reports each of the
\* two publications once.
C38_Witness ==
    LET d == DumpPages(seq_hlist, NoCursor, 1, MaxPages)
    IN  /\ d.done /\ d.pages > 1
        /\ Len(d.out) = 2 /\ NoDuplicate(d.out)
        /\ Len(Sseqs(seq_hlist, 1)) = 2
        /\ Sseqs(seq_hlist, 1)[1].lower = 0


----------------------------------------------------------------------------
(* C39 *)

\* The functions with a group programmed with an accounting index.
Programmed == {f \in SsoFuncs : \E g \in 1 .. SsoGroups : sso.iu_accnt[f][g] # 0}

\* C39: after any sequence of SSO_LF_ALLOC and SSO_LF_FREE requests of several
\* functions, no identifier handed out is 0, no two functions with programmed
\* groups have the same sso_uniq_ident, no identifier of a function with
\* programmed groups is back in the free pool, and no request returns an
\* identifier that is in the free pool already.
C39_IdentUnique ==
    /\ \A f \in Programmed :
           /\ sso.sso_uniq_ident[f] # 0
           /\ \A g \in 1 .. SsoGroups : sso.iu_accnt[f][g] \in {0, sso.sso_uniq_ident[f]}
           /\ sso.sso_uniq_ident[f] \in sso.pfvf_ident.bmap
    /\ \A f, h \in Programmed : f # h => sso.sso_uniq_ident[f] # sso.sso_uniq_ident[h]
    /\ \A f \in SsoFuncs, hwgrps \in 0 .. SsoGroups :
           LET r == rvu_mbox_handler_SSO_LF_FREE(sso, f, hwgrps, 0)
           IN  r.freed # 0 => r.freed \in sso.pfvf_ident.bmap

\* Two functions have their groups programmed with the identifiers 1 and 2,
\* both allocated, and a third one is refused for want of an identifier.
C39_Witness ==
    /\ \E f, h \in Programmed :
           /\ sso.sso_uniq_ident[f] = 1 /\ sso.sso_uniq_ident[h] = SsoHws
    /\ sso.pfvf_ident.bmap = 0 .. SsoHws
    /\ \E f \in SsoFuncs \ Programmed :
           rvu_mbox_handler_SSO_LF_ALLOC(sso, f, 1).rc = "SSO_AF_ERR_AF_LF_ALLOC"

====
